---- MODULE Spec2Model ----
(***************************************************************************)
(* CV-Review-agent: the evaluation pipeline of CVReviewAgent               *)
(* (internal/agent), the Scorer's post-processing of an evaluator reply    *)
(* (internal/scoring) and the report readers.                              *)
(*                                                                         *)
(* One run is IngestFromUploadWithContext followed by processApplicants.   *)
(* processApplicants is cut at its blocking points: the cancellation check *)
(* at the top of an applicant iteration, the evaluator call (start and     *)
(* return), the retry backoff sleep, the inter-applicant delay sleep and   *)
(* the final sort / rank / publish.  Readers (GetReport, GetResults) and   *)
(* the caller's cancel may interleave anywhere between those points.       *)
(*                                                                         *)
(* Nine specifications share the variables:                                *)
(*   Spec        runs of one agent from uploads, one after the other;      *)
(*   SpecGmail   one Gmail run of a new agent, with the GmailHandler's     *)
(*               page loop, message loop and per-message retry loop;       *)
(*   SpecGmailLive  the same run when every call it makes returns;         *)
(*   SpecLock    the RWMutex around the published snapshot, with the       *)
(*               publishing run and the reading goroutines step by step;   *)
(*   SpecCallers the HTTP ingest handler and the desktop window as the     *)
(*               callers that start, cancel and collect runs;              *)
(*   SpecSink    one fetch of the GmailHandler as its progress callback    *)
(*               sees it, with listings of hundreds of messages;           *)
(*   SpecStore   the uploads directory under SaveUploadedFile,             *)
(*               ClearUploads and LoadDocuments;                           *)
(*   SpecNames   the uploads directory by the names of its files, from     *)
(*               the sender of a message to the record of an applicant;    *)
(*   SpecScorer  the Scorer's request builder on document texts and its    *)
(*               decoder on reply texts, and the agent's classification    *)
(*               of an error, one call at a time.                          *)
(***************************************************************************)
EXTENDS Integers, Sequences, FiniteSets, TLC

\* ------------------------------------------------------------------ bounds
\* Largest number of applicant documents LoadDocuments returns in a run.
MaxDocs == 2

\* ------------------------------------------------------- program constants
\* Largest number of goroutines reading the snapshot at once.
MaxReaders == 2

\* Largest number of HTTP ingest requests the server is handed.
MaxRequests == 2

\* Largest number of messages a Gmail search lists, of result pages it takes
\* and of attachment parts a message carries.
MaxMsgs == 2
MaxPages == 2
MaxParts == 2

\* Maximum retry attempts for rate limit errors.
maxRetries == 3

\* ------------------------------------------------------------ input sets
\* Job titles a job description may carry.
Titles == {"T1", "T2"}

\* Sub-scores (experience, education, duties, cover letter) an evaluator
\* reply may carry.  The first is the documented round-trip example (total 88);
\* the other two tie on the total (80) and differ on experience.
SubScores == { <<45, 18, 17, 8>>, <<45, 12, 15, 8>>, <<40, 17, 15, 8>> }

\* Values of the "total_score" field a reply may carry besides the true sum
\* (0 stands for a reply without the field).
ReportedTotals == {0, 99}

\* The zero value models.Scores{}.
ZeroScores ==
    [ExperienceScore |-> 0, EducationScore |-> 0, DutiesScore |-> 0,
     CoverLetterScore |-> 0, TotalScore |-> 0]

\* Evaluator replies: a decodable structured record (with whatever total the
\* evaluator claims), or text that does not decode; hasMarker says whether
\* the text carries one of the substrings isRateLimitError looks for.
Responses ==
    { [kind |-> "json", sub |-> s, total |-> t] :
        s \in SubScores,
        t \in ReportedTotals }
    \cup { [kind |-> "text", hasMarker |-> m] : m \in BOOLEAN }

\* What GenerateContent gives back: a reply, or an error whose message does
\* or does not carry a rate-limit substring.
LLMOutcomes ==
    { [ok |-> TRUE, response |-> r] : r \in Responses }
    \cup { [ok |-> FALSE, hasMarker |-> m] : m \in BOOLEAN }

\* GenerateContent under a context that is already cancelled: the call fails
\* with the context's error, whose message carries no rate-limit substring.
CtxErrOutcome == [ok |-> FALSE, hasMarker |-> FALSE]

NoErr == [isNil |-> TRUE]
Err(src, m) == [isNil |-> FALSE, src |-> src, hasMarker |-> m]

\* ------------------------------------------------------------- the Scorer
\* parseScores: json.Unmarshal fills the Scores from the reply, the reply's
\* own total_score included; undecodable text gives an error that embeds the
\* (truncated) reply text.
parseScores(response) ==
    IF response.kind = "json"
    THEN [scores |-> [ExperienceScore  |-> response.sub[1],
                      EducationScore   |-> response.sub[2],
                      DutiesScore      |-> response.sub[3],
                      CoverLetterScore |-> response.sub[4],
                      TotalScore       |-> response.total],
          err |-> NoErr]
    ELSE [scores |-> ZeroScores, err |-> Err("parse", response.hasMarker)]

\* A total taken from the reply's own total_score field.
TrustReportedTotal(scores) == scores.TotalScore

\* scores.TotalScore = Experience + Education + Duties + CoverLetter
CalculateTotal(scores) ==
    scores.ExperienceScore + scores.EducationScore
        + scores.DutiesScore + scores.CoverLetterScore

\* ScoreApplicant on one outcome of the evaluator call.
ScoreApplicant(out) ==
    IF ~out.ok
    THEN [scores |-> ZeroScores, err |-> Err("llm", out.hasMarker)]
    ELSE LET p == parseScores(out.response) IN
         IF ~p.err.isNil
         THEN [scores |-> ZeroScores, err |-> p.err]
         ELSE [scores |-> [p.scores EXCEPT !.TotalScore = CalculateTotal(p.scores)],
               err |-> NoErr]

\* ------------------------------------------- the Scorer, on reply texts
\* A reply text is a sequence of pieces: "x" is a word of prose, "ws" white
\* space, "{" and "}" the braces, "fence" the mark of three backquotes and
\* "fence-json" that mark with the word json behind it, and
\* "f1", "f2" and "bad" what stands between the braces of a record: the
\* fields of FieldScores, or fields that are not well-formed JSON.

\* The longest prose in front of and behind a record.
MaxProse == 2

ProsePieces == {"x", "ws", "{", "}", "fence-json", "fence"}

\* The texts that may stand in front of or behind a record.
Prose == UNION { [1..m -> ProsePieces] : m \in 0..MaxProse }

\* The Scores the well-formed field lists give: the evaluator is asked to
\* stay within 50, 20, 20 and 10, and may not.
FieldScores(f) ==
    CASE f = "f1" -> [ExperienceScore |-> 45, EducationScore |-> 18,
                      DutiesScore |-> 17, CoverLetterScore |-> 8,
                      TotalScore |-> 88]
      [] f = "f2" -> [ExperienceScore |-> 75, EducationScore |-> 18,
                      DutiesScore |-> 0 - 5, CoverLetterScore |-> 12,
                      TotalScore |-> 100]

\* What may stand in the middle of a reply: a record, a record whose fields
\* are not well-formed, or nothing.
Cores ==
    { <<"{", f, "}">> : f \in {"f1", "f2", "bad"} } \cup { <<>> }

\* The text without the pieces in Drop.
RECURSIVE Without(_, _)
Without(t, Drop) ==
    IF t = <<>> THEN <<>>
    ELSE IF Head(t) \in Drop THEN Without(Tail(t), Drop)
    ELSE <<Head(t)>> \o Without(Tail(t), Drop)

\* json.Unmarshal([]byte(text), &scores) on a zero Scores: white space may
\* stand between the tokens of the object, and nothing else around it; an
\* object without fields leaves the Scores zero.
jsonUnmarshal(text) ==
    LET t == Without(text, {"ws"}) IN
    IF t = <<"{", "}">>
    THEN [ok |-> TRUE, scores |-> ZeroScores]
    ELSE IF Len(t) = 3 /\ t[1] = "{" /\ t[3] = "}" /\ t[2] \in {"f1", "f2"}
    THEN [ok |-> TRUE, scores |-> FieldScores(t[2])]
    ELSE [ok |-> FALSE, scores |-> ZeroScores]

\* strings.TrimSpace.
RECURSIVE TrimLeft(_)
TrimLeft(t) == IF t # <<>> /\ Head(t) = "ws" THEN TrimLeft(Tail(t)) ELSE t

RECURSIVE TrimRight(_)
TrimRight(t) ==
    IF t # <<>> /\ t[Len(t)] = "ws"
    THEN TrimRight(SubSeq(t, 1, Len(t) - 1))
    ELSE t

TrimSpace(t) == TrimRight(TrimLeft(t))

\* strings.TrimPrefix(t, piece) for the fence marks: "fence" is also the
\* beginning of "fence-json", of which it leaves the word json, a word of
\* prose.
TrimPrefix(t, piece) ==
    IF t # <<>> /\ Head(t) = piece THEN Tail(t)
    ELSE IF t # <<>> /\ piece = "fence" /\ Head(t) = "fence-json"
    THEN <<"x">> \o Tail(t)
    ELSE t

\* strings.TrimSuffix(t, "fence").
TrimSuffix(t, piece) ==
    IF t # <<>> /\ t[Len(t)] = piece THEN SubSeq(t, 1, Len(t) - 1) ELSE t

HasPrefix(t, piece) == t # <<>> /\ Head(t) = piece

\* strings.Contains(response, "fence-json").
HasJsonFence(t) == \E k \in 1..Len(t) : t[k] = "fence-json"

\* cleanedResponse: the reply with its fence marks stripped, when the reply
\* has the mark "fence-json" somewhere.
cleanedResponse(response) ==
    IF HasJsonFence(response)
    THEN LET c == TrimSpace(response)
             d == IF HasPrefix(c, "fence-json")
                  THEN TrimPrefix(c, "fence-json")
                  ELSE TrimPrefix(c, "fence")
         IN  TrimSpace(TrimSuffix(d, "fence"))
    ELSE response

\* strings.Index(t, "{") and strings.LastIndex(t, "}"), 1-based, 0 for -1.
Index(t, piece) ==
    IF \E k \in 1..Len(t) : t[k] = piece
    THEN CHOOSE k \in 1..Len(t) :
            t[k] = piece /\ \A j \in 1..(k - 1) : t[j] # piece
    ELSE 0

LastIndex(t, piece) ==
    IF \E k \in 1..Len(t) : t[k] = piece
    THEN CHOOSE k \in 1..Len(t) :
            t[k] = piece /\ \A j \in (k + 1)..Len(t) : t[j] # piece
    ELSE 0

\* truncate(s, maxLen), counted in pieces: the first maxLen of them, and
\* whether "..." follows.
truncate(t, maxLen) ==
    IF Len(t) <= maxLen
    THEN [text |-> t, dots |-> FALSE]
    ELSE [text |-> SubSeq(t, 1, maxLen), dots |-> TRUE]

\* A decoder that only tries the direct decoding of the cleaned reply.
DirectDecodingOnly(response) ==
    LET direct == jsonUnmarshal(cleanedResponse(response)) IN
    IF direct.ok
    THEN [scores |-> direct.scores, err |-> NoErr]
    ELSE [scores |-> ZeroScores,
          err |-> [isNil |-> FALSE, src |-> "parse",
                   msg |-> "no JSON found in response",
                   embedded |-> truncate(response, 200)]]

\* parseScores on a reply text: the direct decoding of the cleaned reply,
\* then the decoding of what stands from its first "{" to its last "}".
\* The error names what it embeds.
parseScoresText(response) ==
    LET cleaned == cleanedResponse(response)
        direct == jsonUnmarshal(cleaned)
        startIdx == Index(cleaned, "{")
        endIdx == LastIndex(cleaned, "}")
        jsonStr == SubSeq(cleaned, startIdx, endIdx)
        extracted == jsonUnmarshal(jsonStr)
    IN  IF direct.ok
        THEN [scores |-> direct.scores, err |-> NoErr]
        ELSE IF startIdx = 0 \/ endIdx = 0 \/ startIdx >= endIdx
        THEN [scores |-> ZeroScores,
              err |-> [isNil |-> FALSE, src |-> "parse",
                       msg |-> "no JSON found in response",
                       embedded |-> truncate(response, 200)]]
        ELSE IF ~extracted.ok
        THEN [scores |-> ZeroScores,
              err |-> [isNil |-> FALSE, src |-> "parse",
                       msg |-> "failed to parse extracted JSON",
                       embedded |-> truncate(jsonStr, 200)]]
        ELSE [scores |-> extracted.scores, err |-> NoErr]

\* The reply a text is to ScoreApplicant: one that decodes to its fields and
\* its own total, or one that does not decode.
ReplyOf(text) ==
    LET p == parseScoresText(text) IN
    IF p.err.isNil
    THEN [kind |-> "json",
          sub |-> <<p.scores.ExperienceScore, p.scores.EducationScore,
                    p.scores.DutiesScore, p.scores.CoverLetterScore>>,
          total |-> p.scores.TotalScore]
    ELSE [kind |-> "text", hasMarker |-> FALSE]

\* ---------------------------------------- the Scorer, on document texts
\* A document text is a string of bytes: `pad` ASCII bytes and then the
\* bytes of `tail`, each of them "a", an ASCII byte, "L", the first byte of
\* a two-byte character, "R", the first byte of a three-byte character, or
\* "c", a continuation byte.

\* The longest tail of a text.
MaxTail == 3

\* if ByteLen(cvContent) > 15000, and cvContent[:15000].
cvLimit == 15000

\* if ByteLen(clContent) > 5000, and clContent[:5000].
clLimit == 5000

\* The bytes of the tails the documents are given.
Bytes == {"a", "L", "c"}

Tails == UNION { [1..m -> Bytes] : m \in 0..MaxTail }

\* The texts whose length is far below, near or at a limit.
Texts(limit) ==
    { [pad |-> q, tail |-> t] :
        q \in {0, limit - 2, limit - 1, limit}, t \in Tails }

EmptyText == [pad |-> 0, tail |-> <<>>]

\* ByteLen(s).
ByteLen(text) == text.pad + Len(text.tail)

\* The width of the character utf8.DecodeRuneInString finds at place k of
\* the bytes t, 0 when it finds utf8.RuneError there with width 1.
Width(t, k) ==
    IF t[k] = "a" THEN 1
    ELSE IF t[k] = "L" /\ k + 1 <= Len(t) /\ t[k + 1] = "c" THEN 2
    ELSE IF /\ t[k] = "R" /\ k + 2 <= Len(t)
            /\ t[k + 1] = "c" /\ t[k + 2] = "c" THEN 3
    ELSE 0

\* utf8.ValidString on bytes, from place k on.
RECURSIVE ValidFrom(_, _)
ValidFrom(t, k) ==
    IF k > Len(t) THEN TRUE
    ELSE IF Width(t, k) = 0 THEN FALSE
    ELSE ValidFrom(t, k + Width(t, k))

\* utf8.ValidString(s).
ValidString(text) == ValidFrom(text.tail, 1)

\* The replacement character U+FFFD, three bytes long.
Replacement == <<"R", "c", "c">>

\* strings.ToValidUTF8(s, replacement) on bytes, from place k on: each run
\* of invalid bytes gives way to one replacement.
RECURSIVE ToValidFrom(_, _, _)
ToValidFrom(t, k, inRun) ==
    IF k > Len(t) THEN <<>>
    ELSE IF Width(t, k) = 0
    THEN (IF inRun THEN <<>> ELSE Replacement) \o ToValidFrom(t, k + 1, TRUE)
    ELSE SubSeq(t, k, k + Width(t, k) - 1)
            \o ToValidFrom(t, k + Width(t, k), FALSE)

\* sanitizeUTF8.
sanitizeUTF8(text) ==
    IF ValidString(text)
    THEN text
    ELSE [text EXCEPT !.tail = ToValidFrom(@, 1, FALSE)]

\* s[:limit], for limit <= ByteLen(s).
Slice(text, limit) ==
    IF limit <= text.pad
    THEN [pad |-> limit, tail |-> <<>>]
    ELSE [text EXCEPT !.tail = SubSeq(@, 1, limit - text.pad)]

\* A request that cuts a text that is as long as the limit, too.
EmbeddedCutAtLimit(content, limit) ==
    LET c == IF ~ValidString(content) THEN sanitizeUTF8(content) ELSE content
    IN  IF ByteLen(c) >= limit
        THEN [text |-> Slice(c, limit), marker |-> TRUE]
        ELSE [text |-> c, marker |-> FALSE]

\* What buildScoringPrompt writes for a document: the text it embeds, and
\* whether the truncation marker follows it.
Embedded(content, limit) ==
    LET c == IF ~ValidString(content) THEN sanitizeUTF8(content) ELSE content
    IN  IF ByteLen(c) > limit
        THEN [text |-> Slice(c, limit), marker |-> TRUE]
        ELSE [text |-> c, marker |-> FALSE]

\* buildScoringPrompt, as far as the applicant's documents go: the CV
\* section, and the cover letter section when there is a cover letter.
buildScoringPrompt(applicant) ==
    [cv |-> Embedded(applicant.CVContent, cvLimit),
     section |-> applicant.CLContent # EmptyText,
     cl |-> IF applicant.CLContent # EmptyText
            THEN Embedded(applicant.CLContent, clLimit)
            ELSE [text |-> EmptyText, marker |-> FALSE]]

\* ------------------------------------- the Scorer, on requirement lists
\* The longest requirement list of a job description.
MaxItems == 4

\* The requirements a list may hold.
ItemNames == {"Task 1", "Task 2"}

\* The requirement lists condenseRequirements may be handed.
ItemLists == UNION { [1..m -> ItemNames] : m \in 0..MaxItems }

\* The categories and the numbers of items buildScoringPrompt asks for:
\* 3 of each required list and 2 of each nice-to-have list.
Categories == {"Experience", "Education", "Duties"}
ItemLimits == {2, 3}

\* What the loop writes for the first `count` items: "; " in front of each
\* item but the first.
RECURSIVE Joined(_, _)
Joined(items, count) ==
    IF count <= 0 THEN <<>>
    ELSE Joined(items, count - 1)
            \o (IF count > 1 THEN <<[kind |-> "sep"]>> ELSE <<>>)
            \o <<[kind |-> "item", text |-> items[count]]>>

\* A summary that never says how many items it left out.
condenseWithoutSuffix(category, items, maxItems) ==
    IF Len(items) = 0
    THEN <<>>
    ELSE LET count == IF Len(items) > maxItems THEN maxItems ELSE Len(items)
         IN  <<[kind |-> "category", text |-> category]>>
                \o Joined(items, count)
                \o <<[kind |-> "newline"]>>

\* condenseRequirements: the string it builds, as the pieces it writes.
condenseRequirements(category, items, maxItems) ==
    IF Len(items) = 0
    THEN <<>>
    ELSE LET count == IF Len(items) > maxItems THEN maxItems ELSE Len(items)
         IN  <<[kind |-> "category", text |-> category]>>
                \o Joined(items, count)
                \o (IF Len(items) > maxItems
                    THEN <<[kind |-> "more", k |-> Len(items) - maxItems]>>
                    ELSE <<>>)
                \o <<[kind |-> "newline"]>>

\* ------------------------------------------------------------ the agent
\* An error message is a sequence of words with one space between them.

\* The longest error message, in words.
MaxWords == 3

Words ==
    {"ResourceExhausted", "RESOURCE_EXHAUSTED", "429", "rate", "Rate",
     "limit", "quota", "quotas", "timeout"}

\* The error messages isRateLimitError may be handed.
Messages == UNION { [1..m -> Words] : m \in 0..MaxWords }

\* strings.Contains(word, marker) for a marker without a space.
WordContains(word, marker) ==
    CASE marker = "ResourceExhausted" -> word = "ResourceExhausted"
      [] marker = "429" -> word = "429"
      [] marker = "quota" -> word \in {"quota", "quotas"}
      [] marker = "rate" -> word = "rate"
      [] marker = "limit" -> word = "limit"
      [] OTHER -> FALSE

\* strings.Contains(errMsg, marker): a marker without a space is within one
\* word; "rate limit" ends one word and begins the next.  The comparison
\* is by bytes, so that "Rate" does not hold "rate".
MsgContains(msg, marker) ==
    IF marker = "rate limit"
    THEN \E k \in 1..(Len(msg) - 1) :
            WordContains(msg[k], "rate") /\ WordContains(msg[k + 1], "limit")
    ELSE \E k \in 1..Len(msg) : WordContains(msg[k], marker)

\* A classification that does not look for "quota".
HasMarkerButQuota(msg) ==
    \/ MsgContains(msg, "ResourceExhausted")
    \/ MsgContains(msg, "429")
    \/ MsgContains(msg, "rate limit")

\* The four strings.Contains tests of isRateLimitError.
HasMarker(msg) ==
    \/ MsgContains(msg, "ResourceExhausted")
    \/ MsgContains(msg, "429")
    \/ MsgContains(msg, "rate limit")
    \/ MsgContains(msg, "quota")

\* The error value with a message, as the run's steps hold it.
ErrorWith(msg) == [isNil |-> FALSE, src |-> "llm", hasMarker |-> HasMarker(msg)]

isRateLimitError(err) == ~err.isNil /\ err.hasMarker

VARIABLES
    jobDesc,      \* a.jobDesc.Title ("" before any job description is parsed)
    results,      \* a.results, the published snapshot
    ctx,          \* the caller's context of the current run
    pc,           \* where the run is
    n,            \* len(documents) of the current run; documents are 1..n
    i,            \* the applicant being processed (1-based)
    attempt,      \* the retry loop's counter
    local,        \* processApplicants' local results slice
    err,          \* processApplicants' err of the current applicant
    ret,          \* what the last finished run returned
    reader,       \* what the reader call of the last step returned
    reply,        \* what the evaluator call that returned in the last step gave
    calls,        \* history: evaluator calls made for applicant i
    called,       \* history: applicants of this run given an evaluator call
    scored,       \* history: applicants of this run whose evaluation succeeded
    completed,    \* history: some run has returned success
    progress,     \* the percentages the progress callback was handed in the
                  \* last step, after the last one it was handed before
    fetch,        \* the GmailHandler's FetchAttachmentsWithContext call
    mu,           \* a.mu, the agent's sync.RWMutex
    rpc,          \* where each reader goroutine is
    http,         \* where each HTTP ingest request is
    gui,          \* the desktop window: its process button and its run
    sink,         \* one fetch of the GmailHandler as its progress callback
                  \* sees it, with its messages counted by the page
    uploads,      \* the uploads directory: the content of each file in it
    documents,    \* what the last LoadDocuments call returned
    store,        \* the uploads directory by file name: its files, what
                  \* wrote them, and what LoadDocuments returned for them
    call          \* the last call of the scorer's request builder or decoder,
                  \* or of the agent's classification of an error

vars == <<jobDesc, results, ctx, pc, n, i, attempt, local, err, ret, reader,
          reply, calls, called, scored, completed, progress, fetch, mu, rpc,
          http, gui, sink, uploads, documents, store, call>>

\* What the Gmail handler, the lock and the callers hold.
handlerVars == <<fetch>>
lockVars == <<mu, rpc>>
callerVars == <<http, gui>>
unitVars == <<sink, uploads, documents, store, call>>
agentVars == <<jobDesc, results, ctx, pc, n, i, attempt, local, err, ret,
               reader, reply, calls, called, scored, completed, progress>>

NoRead == [op |-> "none"]
NoReply == [op |-> "none"]

\* No FetchAttachmentsWithContext call is under way.
NoFetch ==
    [listed |-> 0, pages |-> 0, k |-> 0, attempt |-> 0, lastErr |-> "nil",
     sleepFor |-> 0, downloadedCount |-> 0, gets |-> 0, cleared |-> FALSE,
     listCalls |-> 0, done |-> [op |-> "none"]]

\* No fetch is under way for the progress callback to see.
NoSink == [at |-> "none", listed |-> 0, pages |-> 0, k |-> 0, reported |-> <<>>]

\* The file names the uploads directory may hold, in the order of their
\* names, which is the order os.ReadDir returns them in.  Each is given as
\* the applicant prefix in front of its first underscore, the rest of the
\* base name, and the extension; a name without an underscore has rest "-".
FileList ==
    << [prefix |-> "JaneSmith", rest |-> "-", ext |-> ".txt"],
       [prefix |-> "JaneSmith", rest |-> "CoverLetter", ext |-> ".pdf"],
       [prefix |-> "JaneSmith", rest |-> "Resume", ext |-> ".PDF"],
       [prefix |-> "JohnDoe", rest |-> "CV", ext |-> ".png"],
       [prefix |-> "JohnDoe", rest |-> "CV", ext |-> ".txt"],
       [prefix |-> "JohnDoe", rest |-> "CoverLetter", ext |-> ".txt"],
       [prefix |-> "JohnDoe", rest |-> "Resume", ext |-> ".txt"] >>

FileNames == { FileList[k] : k \in 1..Len(FileList) }

\* What a file of the directory holds: it is absent, or it holds no byte, or
\* it holds text.
FileContents == {"absent", "", "text"}

\* The uploads directory with no file in it.
EmptyDir == [f \in FileNames |-> "absent"]

\* LoadDocuments has not been called.
NoLoad == [op |-> "none"]

\* No file has been written and the directory has not been listed.
EmptyStore == [dir |-> {}, log |-> {}, docs |-> NoLoad]

\* The scorer has not been called.
NoCall == [op |-> "none"]

\* The zero sync.RWMutex: no writer, no readers.
Unlocked == [writer |-> "none", readers |-> {}]

\* The goroutines that call GetReport / GetResults.
Readers == 1..MaxReaders

\* The HTTP ingest requests the server may be handed.
Requests == 1..MaxRequests

\* The window before the process button is clicked.
GuiReady ==
    [processBtn |-> "enabled", cancelBtn |-> "disabled", ctx |-> "none",
     runs |-> 0, returned |-> "none", label |-> "Ready"]

\* reportProgress hands each percentage to the callback.  `old` is what the
\* callback had been handed up to the step, `reported` what the step reports:
\* the last percentage of before is kept in front of the new ones.
reportProgress(old, reported) ==
    IF old = <<>> THEN reported ELSE <<old[Len(old)]>> \o reported

\* progress := baseProgress + (35 * i / len(documents)), i 0-based.
ApplicantProgress(ix, len) == 60 + (35 * (ix - 1)) \div len

Init ==
    /\ jobDesc = ""
    /\ results = <<>>
    /\ ctx = "active"
    /\ pc = "idle"
    /\ n = 0
    /\ i = 0
    /\ attempt = 0
    /\ local = <<>>
    /\ err = NoErr
    /\ ret = "none"
    /\ reader = NoRead
    /\ reply = NoReply
    /\ calls = 0
    /\ called = {}
    /\ scored = {}
    /\ completed = FALSE
    /\ progress = <<>>
    /\ fetch = NoFetch
    /\ mu = Unlocked
    /\ rpc = [r \in Readers |-> "out"]
    /\ http = [r \in Requests |-> "none"]
    /\ gui = GuiReady
    /\ sink = NoSink
    /\ uploads = EmptyDir
    /\ documents = NoLoad
    /\ store = EmptyStore
    /\ call = NoCall

\* ApplicantResult{Name, Scores}; Rank is assigned after sorting.
ApplicantResult(name, scores) == [Name |-> name, Scores |-> scores, Rank |-> 0]

\* A retry loop that gives up at the first error of any kind.
NeverRetry(e, att) == FALSE

\* A retry loop that retries every error.
RetryOnAnyError(e, att) == ~e.isNil /\ att < maxRetries - 1

\* The retry decision taken after a failed call:
\* isRateLimitError(err) && attempt < maxRetries-1.
ShouldRetry(e, att) == isRateLimitError(e) /\ att < maxRetries - 1

\* for attempt := 0; attempt < maxRetries; attempt++
RetryLoopContinues(att) == att < maxRetries

\* A loop that records every applicant, a failed one with the zero Scores.
CollectAlways(loc, name, r) == Append(loc, ApplicantResult(name, r.scores))

\* if err == nil { results = append(results, result) }
CollectResult(loc, name, r) ==
    IF r.err.isNil THEN Append(loc, ApplicantResult(name, r.scores)) ELSE loc

\* A comparator that orders by total ascending.
ByTotalAscending(a, b) == a.Scores.TotalScore < b.Scores.TotalScore

\* The comparator handed to sort.Slice.
less(a, b) == a.Scores.TotalScore > b.Scores.TotalScore

Arrangements(s) ==
    { [k \in 1..Len(s) |-> s[f[k]]] :
        f \in { g \in [1..Len(s) -> 1..Len(s)] :
                  \A x, y \in 1..Len(s) : x # y => g[x] # g[y] } }

\* sort.Slice is not stable: any arrangement of the slice that is ordered by
\* the comparator may come out.
SortSlice(s) ==
    { p \in Arrangements(s) :
        \A x, y \in 1..Len(p) : x < y => ~less(p[y], p[x]) }

\* Ranks shared by applicants with equal totals (competition ranking).
AssignRanksSharedOnTies(s) ==
    [k \in 1..Len(s) |->
        [s[k] EXCEPT !.Rank =
            1 + Cardinality({ x \in 1..Len(s) :
                                s[x].Scores.TotalScore > s[k].Scores.TotalScore })]]

\* for i := range results { results[i].Rank = i + 1 }  (1-based here)
AssignRanks(s) == [k \in 1..Len(s) |-> [s[k] EXCEPT !.Rank = k]]

\* A loop that never leaves the applicant it is at.
AfterApplicantStays == "top"

\* A loop without the inter-applicant delay.
AfterApplicantWithoutDelay == IF i < n THEN "top" ELSE "rank"

\* Where the loop goes once applicant i is dealt with: the inter-applicant
\* delay, or, after the last applicant, ranking.
AfterApplicant == IF i < n THEN "delay" ELSE "rank"

\* The percentage reported with the inter-applicant delay, when there is one.
DelayProgress == IF i < n THEN <<ApplicantProgress(i, n)>> ELSE <<>>

\* A GetReport that reports whatever list there is, an empty one included.
ReportOfAnyList(res, title) ==
    [op |-> "GetReport", isErr |-> FALSE, Applicants |-> res, JobTitle |-> title]

\* GetReport's return value: the no-results error when a.results is empty.
GetReportValue(res, title) ==
    IF Len(res) = 0
    THEN [op |-> "GetReport", isErr |-> TRUE]
    ELSE [op |-> "GetReport", isErr |-> FALSE, Applicants |-> res, JobTitle |-> title]

\* Job descriptions handed to a run: well-formed (with or without a title
\* field), syntactically broken, or with a field of the wrong type (which
\* json.Unmarshal reports after filling the fields it could).
NoTitle == "absent"
JobDescJSONs ==
    [parse : {"ok", "syntax", "type"}, title : Titles \cup {NoTitle}]

\* json.Unmarshal into &a.jobDesc: fields absent from the input keep their
\* value; a syntax error leaves the target untouched.
UnmarshalTitle(old, j) ==
    IF j.parse = "syntax" \/ j.title = NoTitle THEN old ELSE j.title

\* What IngestFromUploadWithContext comes to before the applicant loop: the
\* error it returns ("running" when it goes on to processApplicants) and the
\* percentages it has reported by then.
UploadSetup(j, llmOk, docs) ==
    IF j.parse # "ok"
    THEN [ret |-> "failed to parse job description", reported |-> <<>>]
    ELSE IF ~llmOk
    THEN [ret |-> "failed to initialize LLM client", reported |-> <<0>>]
    ELSE IF docs = 0
    THEN [ret |-> "no documents found in uploads directory", reported |-> <<0, 10>>]
    ELSE [ret |-> "running", reported |-> <<0, 10, 20>>]

\* IngestFromUploadWithContext up to the first applicant iteration.
IngestFromUploadWithContext ==
    /\ pc = "idle"
    /\ \E j \in JobDescJSONs, llmOk \in BOOLEAN, docs \in 0..MaxDocs :
         LET setup == UploadSetup(j, llmOk, docs) IN
         /\ jobDesc' = UnmarshalTitle(jobDesc, j)
         /\ ret' = setup.ret
         /\ progress' = setup.reported
         /\ IF setup.ret = "running"
            THEN /\ pc' = "top"
                 /\ n' = docs
                 /\ i' = 1
            ELSE /\ pc' = "idle"
                 /\ n' = 0
                 /\ i' = 0
    /\ ctx' = "active"
    /\ attempt' = 0
    /\ local' = <<>>
    /\ err' = NoErr
    /\ calls' = 0
    /\ called' = {}
    /\ scored' = {}
    /\ reader' = NoRead
    /\ reply' = NoReply
    /\ UNCHANGED <<results, completed>>
    /\ UNCHANGED <<handlerVars, lockVars, callerVars, unitVars>>

\* The caller cancels the run's context.
Cancel ==
    /\ pc # "idle"
    /\ ctx = "active"
    /\ ctx' = "cancelled"
    /\ reader' = NoRead
    /\ reply' = NoReply
    /\ progress' = reportProgress(progress, <<>>)
    /\ UNCHANGED <<jobDesc, results, pc, n, i, attempt, local, err, ret,
                   calls, called, scored, completed>>
    /\ UNCHANGED <<handlerVars, lockVars, callerVars, unitVars>>

\* The cancellation check that is skipped.
CheckCancelIgnored ==
    /\ pc = "top"
    /\ pc' = "score"
    /\ attempt' = 0
    /\ err' = NoErr
    /\ calls' = 0
    /\ reader' = NoRead
    /\ reply' = NoReply
    /\ progress' = reportProgress(progress, <<ApplicantProgress(i, n)>>)
    /\ UNCHANGED <<jobDesc, results, ctx, n, i, local, ret, called, scored,
                   completed>>
    /\ UNCHANGED <<handlerVars, lockVars, callerVars, unitVars>>

\* Top of an applicant iteration: select on ctx.Done().  Returning ends the
\* function, and its locals with it.
CheckCancel ==
    /\ pc = "top"
    /\ IF ctx = "cancelled"
       THEN /\ pc' = "idle"
            /\ ret' = "Canceled"
            /\ i' = 0
            /\ local' = <<>>
            /\ progress' = reportProgress(progress, <<>>)
       ELSE /\ pc' = "score"
            /\ progress' = reportProgress(progress, <<ApplicantProgress(i, n)>>)
            /\ UNCHANGED <<ret, i, local>>
    /\ attempt' = 0
    /\ err' = NoErr
    /\ calls' = 0
    /\ reader' = NoRead
    /\ reply' = NoReply
    /\ UNCHANGED <<jobDesc, results, ctx, n, called, scored, completed>>
    /\ UNCHANGED <<handlerVars, lockVars, callerVars, unitVars>>

\* One attempt: ScoreApplicant is called and the evaluator request goes out.
ScoreCall ==
    /\ pc = "score"
    /\ pc' = IF ctx = "cancelled" THEN "inflightCancelled" ELSE "inflight"
    /\ calls' = calls + 1
    /\ called' = called \cup {i}
    /\ reader' = NoRead
    /\ reply' = NoReply
    /\ progress' = reportProgress(progress, <<>>)
    /\ UNCHANGED <<jobDesc, results, ctx, n, i, attempt, local, err, ret,
                   scored, completed>>
    /\ UNCHANGED <<handlerVars, lockVars, callerVars, unitVars>>

\* The attempt returns and the retry loop acts on its error: back off and
\* retry, or leave the loop, collect the result if there is one and move on.
ScoreReturn ==
    /\ pc \in {"inflight", "inflightCancelled"}
    /\ \E out \in (IF pc = "inflight" THEN LLMOutcomes ELSE {CtxErrOutcome}) :
         LET r == ScoreApplicant(out) IN
         /\ reply' = [op |-> "GenerateContent", out |-> out]
         /\ err' = r.err
         /\ IF ShouldRetry(r.err, attempt)
            THEN /\ pc' = "backoff"
                 /\ progress' = reportProgress(progress, <<ApplicantProgress(i, n)>>)
                 /\ UNCHANGED <<local, scored>>
            ELSE /\ pc' = AfterApplicant
                 /\ progress' = reportProgress(progress, DelayProgress)
                 /\ local' = CollectResult(local, i, r)
                 /\ scored' = IF r.err.isNil THEN scored \cup {i} ELSE scored
    /\ reader' = NoRead
    /\ UNCHANGED <<jobDesc, results, ctx, n, i, attempt, ret, calls, called,
                   completed>>
    /\ UNCHANGED <<handlerVars, lockVars, callerVars, unitVars>>

\* time.Sleep(retryBackoff); continue
BackoffDone ==
    /\ pc = "backoff"
    /\ attempt' = attempt + 1
    /\ pc' = IF RetryLoopContinues(attempt + 1) THEN "score" ELSE AfterApplicant
    /\ reader' = NoRead
    /\ reply' = NoReply
    /\ progress' = reportProgress(progress,
                        IF RetryLoopContinues(attempt + 1) THEN <<>> ELSE DelayProgress)
    /\ UNCHANGED <<jobDesc, results, ctx, n, i, local, err, ret, calls, called,
                   scored, completed>>
    /\ UNCHANGED <<handlerVars, lockVars, callerVars, unitVars>>

\* time.Sleep(requestDelay), then the next iteration.
DelayDone ==
    /\ pc = "delay"
    /\ i' = i + 1
    /\ pc' = "top"
    /\ reader' = NoRead
    /\ reply' = NoReply
    /\ progress' = reportProgress(progress, <<>>)
    /\ UNCHANGED <<jobDesc, results, ctx, n, attempt, local, err, ret, calls,
                   called, scored, completed>>
    /\ UNCHANGED <<handlerVars, lockVars, callerVars, unitVars>>

\* After the loop: sort, assign ranks, publish under the lock, return nil.
RankAndPublish ==
    /\ pc = "rank"
    /\ \E sorted \in SortSlice(local) : results' = AssignRanks(sorted)
    /\ pc' = "idle"
    /\ ret' = "nil"
    /\ completed' = TRUE
    /\ i' = 0
    /\ local' = <<>>
    /\ attempt' = 0
    /\ err' = NoErr
    /\ calls' = 0
    /\ reader' = NoRead
    /\ reply' = NoReply
    /\ progress' = reportProgress(progress, <<95, 100>>)
    /\ UNCHANGED <<jobDesc, ctx, n, called, scored>>
    /\ UNCHANGED <<handlerVars, lockVars, callerVars, unitVars>>

\* GetResults returns a copy of a.results.
GetResults(res) == res

GetReport ==
    /\ reader' = GetReportValue(results, jobDesc)
    /\ reply' = NoReply
    /\ progress' = reportProgress(progress, <<>>)
    /\ UNCHANGED <<jobDesc, results, ctx, pc, n, i, attempt, local, err, ret,
                   calls, called, scored, completed>>
    /\ UNCHANGED <<handlerVars, lockVars, callerVars, unitVars>>

Next ==
    \/ IngestFromUploadWithContext
    \/ Cancel
    \/ CheckCancel
    \/ ScoreCall
    \/ ScoreReturn
    \/ BackoffDone
    \/ DelayDone
    \/ RankAndPublish
    \/ GetReport

Spec == Init /\ [][Next]_vars

\* ------------------------------------------------------- the Gmail run
\* Progress := 40 * current / total: the Gmail handler's percentage mapped
\* into the first 40% of the run.
GmailForward(current) == (40 * current) \div 100

\* The error IngestFromGmailWithContext returns when the fetch fails:
\* fmt.Errorf("failed to fetch Gmail attachments: %w", err).
WrapFetch(e) ==
    IF e = "Canceled"
    THEN "failed to fetch Gmail attachments: context canceled"
    ELSE "failed to fetch Gmail attachments"

\* The errors of an error's chain (errors.Unwrap, repeatedly).
Chain(e) ==
    IF e = "failed to fetch Gmail attachments: context canceled"
    THEN {e, "Canceled"}
    ELSE {e}

\* What IngestFromGmailWithContext comes to before the first page is listed.
GmailSetup(j, handlerOk, clearOk, mkdirOk) ==
    IF j.parse # "ok"
    THEN [ret |-> "failed to parse job description", reported |-> <<>>,
          cleared |-> FALSE]
    ELSE IF ~handlerOk
    THEN [ret |-> "failed to initialize Gmail handler", reported |-> <<0>>,
          cleared |-> FALSE]
    ELSE IF ~clearOk
    THEN [ret |-> "failed to clear uploads", reported |-> <<0, 5>>,
          cleared |-> FALSE]
    ELSE IF ~mkdirOk
    THEN [ret |-> WrapFetch("failed to create uploads directory"),
          reported |-> <<0, 5, 10>>, cleared |-> TRUE]
    ELSE [ret |-> "running", reported |-> <<0, 5, 10, GmailForward(0)>>,
          cleared |-> TRUE]

\* IngestFromGmailWithContext up to FetchAttachmentsWithContext's page loop.
IngestFromGmailWithContext ==
    /\ pc = "idle"
    /\ \E j \in JobDescJSONs, handlerOk, clearOk, mkdirOk \in BOOLEAN :
         LET setup == GmailSetup(j, handlerOk, clearOk, mkdirOk) IN
         /\ jobDesc' = UnmarshalTitle(jobDesc, j)
         /\ ret' = setup.ret
         /\ progress' = setup.reported
         /\ IF setup.ret = "running"
            THEN /\ pc' = "listTop"
                 /\ fetch' = [NoFetch EXCEPT !.cleared = TRUE]
            ELSE /\ pc' = "idle"
                 /\ fetch' = NoFetch
    /\ ctx' = "active"
    /\ n' = 0
    /\ i' = 0
    /\ attempt' = 0
    /\ local' = <<>>
    /\ err' = NoErr
    /\ calls' = 0
    /\ called' = {}
    /\ scored' = {}
    /\ reader' = NoRead
    /\ reply' = NoReply
    /\ UNCHANGED <<results, completed>>
    /\ UNCHANGED <<lockVars, callerVars, unitVars>>

\* gh.reportProgress(len(allMessages)*20/100, ...) after a page that names a
\* next page.
ListedProgress(len) == (len * 20) \div 100

\* A listing that never counts as empty.
NeverNoMessages(len) == FALSE

\* if len(allMessages) == 0, after the page loop.
NoMessages(len) == len = 0

\* One turn of the page loop: the cancellation check, then Messages.List.
ListPage ==
    /\ pc = "listTop"
    /\ IF ctx = "cancelled"
       THEN /\ pc' = "idle"
            /\ ret' = WrapFetch("Canceled")
            /\ fetch' = NoFetch
            /\ progress' = reportProgress(progress, <<>>)
       ELSE \E listOk, more \in BOOLEAN, m \in 0..(MaxMsgs - fetch.listed) :
              LET len == fetch.listed + m IN
              /\ more => fetch.pages + 1 < MaxPages
              /\ IF ~listOk
                 THEN /\ pc' = "idle"
                      /\ ret' = WrapFetch("unable to retrieve messages")
                      /\ fetch' = NoFetch
                      /\ progress' = reportProgress(progress, <<>>)
                 ELSE IF more
                 THEN /\ pc' = "listTop"
                      /\ ret' = ret
                      /\ fetch' = [fetch EXCEPT !.listed = len,
                                                !.pages = @ + 1,
                                                !.listCalls = @ + 1]
                      /\ progress' = reportProgress(progress,
                                        <<GmailForward(ListedProgress(len))>>)
                 ELSE IF NoMessages(len)
                 THEN /\ pc' = "idle"
                      /\ ret' = WrapFetch("no messages found with subject")
                      /\ fetch' = NoFetch
                      /\ progress' = reportProgress(progress, <<>>)
                 ELSE /\ pc' = "itemTop"
                      /\ ret' = ret
                      /\ fetch' = [fetch EXCEPT !.listed = len,
                                                !.pages = 0,
                                                !.listCalls = @ + 1,
                                                !.k = 1]
                      /\ progress' = reportProgress(progress, <<GmailForward(20)>>)
    /\ reader' = NoRead
    /\ reply' = NoReply
    /\ UNCHANGED <<jobDesc, results, ctx, n, i, attempt, local, err, calls,
                   called, scored, completed>>
    /\ UNCHANGED <<lockVars, callerVars, unitVars>>

\* progress := 20 + (80 * i / len(allMessages)), i 0-based.
ItemProgress(k, len) == 20 + (80 * (k - 1)) \div len

\* Top of the message loop: the cancellation check, the progress report and
\* the call of processMessageWithRetry.
ItemTop ==
    /\ pc = "itemTop"
    /\ IF ctx = "cancelled"
       THEN /\ pc' = "idle"
            /\ ret' = WrapFetch("Canceled")
            /\ fetch' = NoFetch
            /\ progress' = reportProgress(progress, <<>>)
       ELSE /\ pc' = "attemptTop"
            /\ ret' = ret
            /\ fetch' = [fetch EXCEPT !.attempt = 0, !.lastErr = "nil",
                                      !.gets = 0, !.done = [op |-> "none"]]
            /\ progress' = reportProgress(progress,
                              <<GmailForward(ItemProgress(fetch.k, fetch.listed))>>)
    /\ reader' = NoRead
    /\ reply' = NoReply
    /\ UNCHANGED <<jobDesc, results, ctx, n, i, attempt, local, err, calls,
                   called, scored, completed>>
    /\ UNCHANGED <<lockVars, callerVars, unitVars>>

\* The retries FetchAttachmentsWithContext allows each message.
retries == 3

\* for attempt := 0; attempt <= retries; attempt++
AttemptLoopContinues(att) == att <= retries

\* time.Sleep(time.Duration(attempt) * time.Second), in seconds.
BackoffSeconds(att) == att

\* How the handling of one attachment part of a message goes.
PartOutcomes == {"ok", "download", "decode", "write"}

\* The attachment parts of a message, each with how its handling goes.
PartLists == UNION { [1..m -> PartOutcomes] : m \in 0..MaxParts }

\* lastErr as the handling of a part sets it.
PartErr(o) ==
    CASE o = "download" -> "unable to retrieve attachment"
      [] o = "decode" -> "unable to decode attachment"
      [] o = "write" -> "unable to write file"

PartFailed(parts) == \E x \in 1..Len(parts) : parts[x] # "ok"

\* The files ioutil.WriteFile wrote in the loop over the parts.
FilesWritten(parts) == Cardinality({ x \in 1..Len(parts) : parts[x] = "ok" })

\* lastErr after the loop over the parts: each failing part overwrites it.
LastErrAfter(parts, old) ==
    IF PartFailed(parts)
    THEN PartErr(parts[CHOOSE x \in 1..Len(parts) :
                         /\ parts[x] # "ok"
                         /\ \A y \in 1..Len(parts) : parts[y] # "ok" => y <= x])
    ELSE old

\* if hasAttachments { return nil }: hasAttachments is set as soon as a part
\* names a file and an attachment, before the part is downloaded.
AttemptSucceeds(parts) == Len(parts) > 0

\* processMessageWithRetry has returned e: FetchAttachmentsWithContext logs and
\* goes on when e is an error, counts the message when it is nil, and moves
\* to the next message.
ItemEnded(f, e, parts) ==
    [f EXCEPT !.downloadedCount = IF e = "nil" THEN @ + 1 ELSE @,
              !.k = @ + 1,
              !.attempt = 0,
              !.lastErr = "nil",
              !.gets = 0,
              !.sleepFor = 0,
              !.done = [op |-> "processMessageWithRetry", ret |-> e,
                        partFailed |-> PartFailed(parts), gets |-> f.gets,
                        counted |-> e = "nil", parts |-> Len(parts),
                        written |-> FilesWritten(parts)]]

AfterItem == IF fetch.k < fetch.listed THEN "itemTop" ELSE "fetchDone"

\* Top of an attempt: the cancellation check, then the wait before a retry.
AttemptTop ==
    /\ pc = "attemptTop"
    /\ IF ctx = "cancelled"
       THEN /\ pc' = AfterItem
            /\ fetch' = ItemEnded(fetch, "Canceled", <<>>)
       ELSE IF fetch.attempt > 0
       THEN /\ pc' = "sleep"
            /\ fetch' = [fetch EXCEPT !.sleepFor = BackoffSeconds(fetch.attempt)]
       ELSE /\ pc' = "get"
            /\ fetch' = fetch
    /\ progress' = reportProgress(progress, <<>>)
    /\ reader' = NoRead
    /\ reply' = NoReply
    /\ UNCHANGED <<jobDesc, results, ctx, n, i, attempt, local, err, ret,
                   calls, called, scored, completed>>
    /\ UNCHANGED <<lockVars, callerVars, unitVars>>

\* The wait before a retry is over.
SleepDone ==
    /\ pc = "sleep"
    /\ pc' = "get"
    /\ fetch' = [fetch EXCEPT !.sleepFor = 0]
    /\ progress' = reportProgress(progress, <<>>)
    /\ reader' = NoRead
    /\ reply' = NoReply
    /\ UNCHANGED <<jobDesc, results, ctx, n, i, attempt, local, err, ret,
                   calls, called, scored, completed>>
    /\ UNCHANGED <<lockVars, callerVars, unitVars>>

\* The rest of an attempt: Messages.Get, the loop over the message's parts,
\* and either the return or the step to the next attempt.
GetMessage ==
    /\ pc = "get"
    /\ \E getOk \in BOOLEAN, parts \in PartLists :
         LET got == [fetch EXCEPT !.gets = @ + 1]
             failed == [got EXCEPT !.lastErr =
                           IF getOk THEN LastErrAfter(parts, @)
                                    ELSE "unable to retrieve message",
                                   !.attempt = @ + 1]
         IN
         /\ ~getOk => parts = <<>>
         /\ IF getOk /\ AttemptSucceeds(parts)
            THEN /\ pc' = AfterItem
                 /\ fetch' = ItemEnded(got, "nil", parts)
            ELSE IF AttemptLoopContinues(failed.attempt)
            THEN /\ pc' = "attemptTop"
                 /\ fetch' = failed
            ELSE /\ pc' = AfterItem
                 /\ fetch' = ItemEnded(failed, failed.lastErr, parts)
    /\ progress' = reportProgress(progress, <<>>)
    /\ reader' = NoRead
    /\ reply' = NoReply
    /\ UNCHANGED <<jobDesc, results, ctx, n, i, attempt, local, err, ret,
                   calls, called, scored, completed>>
    /\ UNCHANGED <<lockVars, callerVars, unitVars>>

\* What IngestFromGmailWithContext comes to between the fetch and the
\* applicant loop.
AfterFetch(llmOk, docs) ==
    IF ~llmOk
    THEN [ret |-> "failed to initialize LLM client",
          reported |-> <<GmailForward(100), 40>>]
    ELSE IF docs = 0
    THEN [ret |-> "no documents found after Gmail fetch",
          reported |-> <<GmailForward(100), 40, 50>>]
    ELSE [ret |-> "running", reported |-> <<GmailForward(100), 40, 50, 60>>]

\* FetchAttachmentsWithContext returns nil; IngestFromGmailWithContext goes on
\* to the evaluator client, LoadDocuments and processApplicants.
FetchReturn ==
    /\ pc = "fetchDone"
    /\ \E llmOk \in BOOLEAN, docs \in 0..MaxDocs :
         LET rest == AfterFetch(llmOk, docs) IN
         /\ ret' = rest.ret
         /\ progress' = reportProgress(progress, rest.reported)
         /\ IF rest.ret = "running"
            THEN /\ pc' = "top"
                 /\ n' = docs
                 /\ i' = 1
            ELSE /\ pc' = "idle"
                 /\ n' = 0
                 /\ i' = 0
    /\ fetch' = NoFetch
    /\ reader' = NoRead
    /\ reply' = NoReply
    /\ UNCHANGED <<jobDesc, results, ctx, attempt, local, err, calls, called,
                   scored, completed>>
    /\ UNCHANGED <<lockVars, callerVars, unitVars>>

\* One Gmail run of a new agent, from IngestFromGmailWithContext to its return.
NextGmail ==
    \/ (ret = "none" /\ IngestFromGmailWithContext)
    \/ ListPage
    \/ ItemTop
    \/ AttemptTop
    \/ SleepDone
    \/ GetMessage
    \/ FetchReturn
    \/ Cancel
    \/ CheckCancel
    \/ ScoreCall
    \/ ScoreReturn
    \/ BackoffDone
    \/ DelayDone
    \/ RankAndPublish
    \/ GetReport

SpecGmail == Init /\ [][NextGmail]_vars

\* The steps of the run itself.  One goroutine takes them one after the
\* other, and each of them is a call that returns: a check of the context, a
\* page listing, a message get, an evaluator call, a time.Sleep.
RunStep ==
    \/ ListPage
    \/ ItemTop
    \/ AttemptTop
    \/ SleepDone
    \/ GetMessage
    \/ FetchReturn
    \/ CheckCancel
    \/ ScoreCall
    \/ ScoreReturn
    \/ BackoffDone
    \/ DelayDone
    \/ RankAndPublish

\* The Gmail run when every call it makes returns.  The caller is free to
\* cancel or not, and to read or not.
SpecGmailLive == SpecGmail /\ WF_vars(RunStep)

\* ----------------------------------------------- the handler's own scale
\* The same FetchAttachmentsWithContext as its progress callback sees it: the
\* values of `current` it hands to gh.reportProgress, in order.  Messages are
\* counted by the page here, so that listings of hundreds of messages are
\* covered; what happens inside processMessageWithRetry reports nothing and
\* is left to the steps above.

\* maxResults := int64(100): the most messages one page holds.
maxResults == 100

\* The pages of one listing.
MaxSinkPages == 3

\* The numbers of messages a page may hold.
PageSizes == {0, maxResults \div 2, maxResults}

\* The call begins: the directory is made and "Listing emails..." is
\* reported with current 0.
SinkFetchBegins ==
    /\ sink.at \in {"none", "returned"}
    /\ \E mkdirOk \in BOOLEAN :
         sink' = IF mkdirOk
                 THEN [NoSink EXCEPT !.at = "list", !.reported = <<0>>]
                 ELSE [NoSink EXCEPT !.at = "returned"]
    /\ UNCHANGED <<agentVars, handlerVars, lockVars, callerVars, store, uploads,
                   documents, call>>

\* One turn of the page loop.  `stop` is a cancelled context or a failed
\* Messages.List, which end the call with nothing more reported.
SinkListPage ==
    /\ sink.at = "list"
    /\ \E stop, more \in BOOLEAN, m \in PageSizes :
         LET len == sink.listed + m IN
         /\ more => sink.pages + 1 < MaxSinkPages
         /\ sink' =
              IF stop
              THEN [sink EXCEPT !.at = "returned",
                                !.reported = reportProgress(@, <<>>)]
              ELSE IF more
              THEN [sink EXCEPT !.listed = len, !.pages = @ + 1,
                                !.reported =
                                    reportProgress(@, <<ListedProgress(len)>>)]
              ELSE IF NoMessages(len)
              THEN [sink EXCEPT !.at = "returned",
                                !.reported = reportProgress(@, <<>>)]
              ELSE [sink EXCEPT !.at = "items", !.listed = len, !.k = 1,
                                !.reported = reportProgress(@, <<20>>)]
    /\ UNCHANGED <<agentVars, handlerVars, lockVars, callerVars, store, uploads,
                   documents, call>>

\* One turn of the message loop: the cancellation check, the report of the
\* message's percentage, and processMessageWithRetry.
SinkItem ==
    /\ sink.at = "items"
    /\ \E cancelled \in BOOLEAN :
         sink' =
           IF cancelled
           THEN [sink EXCEPT !.at = "returned",
                             !.reported = reportProgress(@, <<>>)]
           ELSE [sink EXCEPT
                   !.at = IF sink.k < sink.listed THEN "items" ELSE "after",
                   !.k = @ + 1,
                   !.reported =
                       reportProgress(@, <<ItemProgress(sink.k, sink.listed)>>)]
    /\ UNCHANGED <<agentVars, handlerVars, lockVars, callerVars, store, uploads,
                   documents, call>>

\* After the message loop: "Downloaded N attachments" with current 100, and
\* the return of nil.
SinkFetchEnds ==
    /\ sink.at = "after"
    /\ sink' = [sink EXCEPT !.at = "returned",
                            !.reported = reportProgress(@, <<100>>)]
    /\ UNCHANGED <<agentVars, handlerVars, lockVars, callerVars, store, uploads,
                   documents, call>>

NextSink ==
    \/ SinkFetchBegins
    \/ SinkListPage
    \/ SinkItem
    \/ SinkFetchEnds

SpecSink == Init /\ [][NextSink]_vars

\* ----------------------------------------------- the uploads directory
\* strings.ToLower(filepath.Ext(filename)).
LowerExt(f) ==
    CASE f.ext = ".PDF" -> ".pdf"
      [] OTHER -> f.ext

\* Only files of these extensions are read.
Supported(f) == LowerExt(f) \in {".pdf", ".txt", ".doc", ".docx"}

\* len(strings.Split(baseName, "_")) >= 2: the base name has an underscore.
HasParts(f) == f.rest # "-"

\* strings.Contains(docType, word), docType being the lower-cased rest of the
\* base name.
Contains(f, word) ==
    CASE f.rest = "CV" -> word \in {"cv"}
      [] f.rest = "Resume" -> word \in {"resume"}
      [] f.rest = "CoverLetter" -> word \in {"cover", "letter"}
      [] OTHER -> FALSE

IsCV(f) == Contains(f, "cv") \/ Contains(f, "resume")

IsCoverLetter(f) ==
    /\ ~IsCV(f)
    /\ Contains(f, "cover") \/ Contains(f, "letter") \/ Contains(f, "cl")

\* The files of the directory that LoadDocuments reads.
Loaded(dir, f) == dir[f] # "absent" /\ Supported(f) /\ HasParts(f)

\* applicantFiles[applicantName] == nil.
NilDoc == [nil |-> TRUE]

\* applicantFiles after the loop over the first k files of the directory:
\* for each applicant name either NilDoc or its ApplicantDocument.
RECURSIVE Grouped(_, _)
Grouped(dir, k) ==
    IF k = 0
    THEN [p \in { f.prefix : f \in FileNames } |-> NilDoc]
    ELSE LET before == Grouped(dir, k - 1)
             f == FileList[k]
             doc == IF before[f.prefix] = NilDoc
                    THEN [Name |-> f.prefix, CVContent |-> "", CLContent |-> ""]
                    ELSE before[f.prefix]
         IN  IF ~Loaded(dir, f)
             THEN before
             ELSE IF IsCV(f)
             THEN [before EXCEPT ![f.prefix] = [doc EXCEPT !.CVContent = dir[f]]]
             ELSE IF IsCoverLetter(f)
             THEN [before EXCEPT ![f.prefix] = [doc EXCEPT !.CLContent = dir[f]]]
             ELSE [before EXCEPT ![f.prefix] = doc]

\* A conversion that takes every document of the map.
IncludeEveryDocument(m) ==
    { m[p] : p \in { q \in DOMAIN m : m[q] # NilDoc } }

\* The documents the conversion of the map to a slice takes.
Included(m) ==
    { m[p] : p \in { q \in DOMAIN m : m[q] # NilDoc /\ m[q].CVContent # "" } }

\* The slices the loop over the map may build: Go iterates a map in an
\* order of its own choosing.
MapToSlice(m) ==
    { s \in [1..Cardinality(Included(m)) -> Included(m)] :
        \A x, y \in DOMAIN s : x # y => s[x] # s[y] }

\* SaveUploadedFile: os.Create makes or empties the file and io.Copy fills
\* it; when the directory or the file cannot be made nothing is written.
SaveUploadedFile ==
    /\ \E f \in FileNames, c \in FileContents \ {"absent"}, ok \in BOOLEAN :
         uploads' = IF ok THEN [uploads EXCEPT ![f] = c] ELSE uploads
    /\ documents' = NoLoad
    /\ UNCHANGED <<agentVars, handlerVars, lockVars, callerVars, store, sink, call>>

\* ClearUploads: os.RemoveAll, then os.MkdirAll.
ClearUploads ==
    /\ \E ok \in BOOLEAN :
         uploads' = IF ok THEN EmptyDir ELSE uploads
    /\ documents' = NoLoad
    /\ UNCHANGED <<agentVars, handlerVars, lockVars, callerVars, store, sink, call>>

\* LoadDocuments.  `dirOk` is whether os.ReadDir succeeds, `bad` the place in
\* the directory of a file that os.ReadFile fails on, 0 for none.
LoadDocuments ==
    /\ \E dirOk \in BOOLEAN, bad \in 0..Len(FileList) :
         IF ~dirOk
         THEN documents' = [op |-> "LoadDocuments",
                            err |-> "failed to read uploads directory",
                            docs |-> <<>>]
         ELSE IF bad # 0 /\ Loaded(uploads, FileList[bad])
         THEN documents' = [op |-> "LoadDocuments",
                            err |-> "failed to read file", docs |-> <<>>]
         ELSE \E s \in MapToSlice(Grouped(uploads, Len(FileList))) :
                documents' = [op |-> "LoadDocuments", err |-> "nil", docs |-> s]
    /\ UNCHANGED uploads
    /\ UNCHANGED <<agentVars, handlerVars, lockVars, callerVars, store, sink, call>>

NextStore ==
    \/ SaveUploadedFile
    \/ ClearUploads
    \/ LoadDocuments

SpecStore == Init /\ [][NextStore]_vars

\* ------------------------------------ file names, from sender to record
\* The uploads directory by the names of its files, as the Gmail handler
\* and the upload handler fill it and as LoadDocuments reads it.  A string is
\* the sequence of its characters.

\* The files written to the directory before it is listed.
MaxFiles == 2

\* The characters of the names, in the order of their bytes.
Alphabet ==
    <<" ", "-", ".", "<", ">", "@", "A", "B", "C", "D", "E", "F", "G", "H", "I", "J", "K", "L", "M", "N", "O", "P", "Q", "R", "S", "T", "U", "V", "W", "X", "Y", "Z">>
        \o <<"_", "a", "b", "c", "d", "e", "f", "g", "h", "i", "j", "k", "l", "m", "n", "o", "p", "q", "r", "s", "t", "u", "v", "w", "x", "y", "z">>

Code(ch) == CHOOSE k \in 1..Len(Alphabet) : Alphabet[k] = ch

\* strings.ToLower, a character at a time.
ToLowerChar(ch) ==
    IF Code(ch) >= Code("A") /\ Code(ch) <= Code("Z")
    THEN Alphabet[Code(ch) - Code("A") + Code("a")]
    ELSE ch

ToLower(s) == [k \in 1..Len(s) |-> ToLowerChar(s[k])]

\* strings.Contains(s, sub).
StrContains(s, sub) ==
    \E k \in 0..(Len(s) - Len(sub)) :
        \A j \in 1..Len(sub) : s[k + j] = sub[j]

\* strings.HasSuffix(s, suffix).
StrHasSuffix(s, suffix) ==
    /\ Len(suffix) <= Len(s)
    /\ \A j \in 1..Len(suffix) : s[Len(s) - Len(suffix) + j] = suffix[j]

\* strings.TrimSuffix(s, suffix).
StrTrimSuffix(s, suffix) ==
    IF StrHasSuffix(s, suffix) THEN SubSeq(s, 1, Len(s) - Len(suffix)) ELSE s

\* filepath.Ext(name): the suffix that begins at the last dot, or "".
Ext(name) ==
    IF LastIndex(name, ".") = 0 THEN <<>>
    ELSE SubSeq(name, LastIndex(name, "."), Len(name))

\* The order of two names by their bytes, the order os.ReadDir lists in.
NameLess(a, b) ==
    \E k \in 1..(Len(a) + 1) :
        /\ k <= Len(b)
        /\ \A j \in 1..(k - 1) : a[j] = b[j]
        /\ k = Len(a) + 1 \/ Code(a[k]) < Code(b[k])

Unknown == <<"U", "n", "k", "n", "o", "w", "n">>

\* The From headers of the messages.
FromHeaders ==
    { <<"J", "a", "n", "e", " ", "S", "m", "i", "t", "h", " ", "<", "j", "a", "n", "e", "@", "x", ".", "c", "o", "m", ">">>,
      <<"j", "o", "h", "n", "_", "d", "o", "e", "@", "x", ".", "c", "o", "m">>,
      <<"j", "o", "h", "n", "@", "x", ".", "c", "o", "m">>,
      <<"m", "a", "i", "l", "e", "r", "-", "d", "a", "e", "m", "o", "n">> }

\* A message: whether it has a From header, and the header's value.
Senders ==
    { [hasFrom |-> TRUE, from |-> h] : h \in FromHeaders }
        \cup { [hasFrom |-> FALSE, from |-> <<>>] }

\* strings.ReplaceAll(strings.TrimSpace(s), " ", ""): with the space the
\* only white space of a header, no space is left.
WithoutSpaces(s) == SelectSeq(s, LAMBDA ch : ch # " ")

\* extractSenderName.  Index is 1-based here: idx > 0 is Index > 1.
extractSenderName(message) ==
    IF ~message.hasFrom
    THEN Unknown
    ELSE IF Index(message.from, "<") > 1
    THEN WithoutSpaces(SubSeq(message.from, 1, Index(message.from, "<") - 1))
    ELSE IF Index(message.from, "@") > 1
    THEN SubSeq(message.from, 1, Index(message.from, "@") - 1)
    ELSE Unknown

\* part.Filename of the attachment parts.
AttachmentNames ==
    { <<"c", "v", ".", "p", "d", "f">>,
      <<"R", "e", "s", "u", "m", "e", ".", "p", "d", "f">>,
      <<"c", "o", "v", "e", "r", "_", "l", "e", "t", "t", "e", "r", ".", "p", "d", "f">>,
      <<"C", "L", ".", "p", "d", "f">> }

\* newFilename: SenderName_CV.ext, SenderName_CoverLetter.ext, or
\* SenderName_ and the attachment's own file name.
newFilename(senderName, filename) ==
    LET ext == Ext(filename)
        baseName == ToLower(StrTrimSuffix(filename, ext))
    IN  IF StrContains(baseName, <<"c", "v">>)
           \/ StrContains(baseName, <<"r", "e", "s", "u", "m", "e">>)
        THEN senderName \o <<"_", "C", "V">> \o ext
        ELSE IF StrContains(baseName, <<"c", "o", "v", "e", "r">>)
                \/ StrContains(baseName, <<"l", "e", "t", "t", "e", "r">>)
        THEN senderName \o <<"_", "C", "o", "v", "e", "r", "L", "e", "t", "t", "e", "r">> \o ext
        ELSE senderName \o <<"_">> \o filename

\* The names files are uploaded under.
UploadNames ==
    { <<"J", "o", "h", "n", "D", "o", "e", "_", "C", "V", "_", "C", "o", "v", "e", "r", "L", "e", "t", "t", "e", "r", ".", "p", "d", "f">>,
      <<"J", "o", "h", "n", "D", "o", "e", "_", "L", "e", "t", "t", "e", "r", ".", "P", "D", "F">>,
      <<"J", "o", "h", "n", "D", "o", "e", "_", "N", "o", "t", "e", "s", ".", "p", "d", "f">>,
      <<"J", "o", "h", "n", "D", "o", "e", "_", "C", "V", ".", "p", "n", "g">>,
      <<"J", "o", "h", "n", "D", "o", "e", ".", "p", "d", "f">> }

\* What a file holds is told apart by where it came from: the message and
\* the attachment's file name, or the name it was uploaded under.
Downloaded(message, filename) ==
    [by |-> "download", message |-> message, filename |-> filename]

Uploaded(name) == [by |-> "upload", name |-> name]

\* The content of no file: "".  Every file written here holds text.
NoText == [empty |-> TRUE]

\* ioutil.WriteFile and os.Create: the file of that name is made, or the
\* one that is there is replaced.
WriteFile(dir, name, data) ==
    { f \in dir : f.name # name } \cup {[name |-> name, data |-> data]}

\* The directory as os.ReadDir returns it: its files in the order of their names.
ReadDir(dir) ==
    CHOOSE s \in [1..Cardinality(dir) -> dir] :
        \A x, y \in 1..Cardinality(dir) : x < y => NameLess(s[x].name, s[y].name)

\* ext := strings.ToLower(filepath.Ext(filename)) and the four extensions.
SupportedName(name) ==
    ToLower(Ext(name)) \in { <<".", "p", "d", "f">>, <<".", "t", "x", "t">>, <<".", "d", "o", "c">>, <<".", "d", "o", "c", "x">> }

\* baseName := strings.TrimSuffix(filename, ext), ext in lower case.
BaseName(name) == StrTrimSuffix(name, ToLower(Ext(name)))

\* parts[0] of strings.Split(baseName, "_").
ApplicantName(name) ==
    IF Index(BaseName(name), "_") = 0 THEN BaseName(name)
    ELSE SubSeq(BaseName(name), 1, Index(BaseName(name), "_") - 1)

\* strings.ToLower(strings.Join(parts[1:], "_")).
DocType(name) ==
    ToLower(SubSeq(BaseName(name), Index(BaseName(name), "_") + 1,
                   Len(BaseName(name))))

\* The files LoadDocuments reads: len(parts) >= 2 is an underscore in the
\* base name.
LoadedName(name) == SupportedName(name) /\ Index(BaseName(name), "_") # 0

\* A classification that looks for a cover letter first.
KindCoverFirst(name) ==
    IF StrContains(DocType(name), <<"c", "o", "v", "e", "r">>)
       \/ StrContains(DocType(name), <<"l", "e", "t", "t", "e", "r">>)
       \/ StrContains(DocType(name), <<"c", "l">>)
    THEN "cl"
    ELSE IF StrContains(DocType(name), <<"c", "v">>)
            \/ StrContains(DocType(name), <<"r", "e", "s", "u", "m", "e">>)
    THEN "cv"
    ELSE "none"

\* The if / else if on docType.
Kind(name) ==
    IF StrContains(DocType(name), <<"c", "v">>)
       \/ StrContains(DocType(name), <<"r", "e", "s", "u", "m", "e">>)
    THEN "cv"
    ELSE IF StrContains(DocType(name), <<"c", "o", "v", "e", "r">>)
            \/ StrContains(DocType(name), <<"l", "e", "t", "t", "e", "r">>)
            \/ StrContains(DocType(name), <<"c", "l">>)
    THEN "cl"
    ELSE "none"

\* applicantFiles after the loop over the first k files of the listing.
RECURSIVE GroupedByName(_, _)
GroupedByName(files, k) ==
    IF k = 0
    THEN [p \in { ApplicantName(files[x].name) : x \in 1..Len(files) } |-> NilDoc]
    ELSE LET before == GroupedByName(files, k - 1)
             f == files[k]
             p == ApplicantName(f.name)
             doc == IF before[p] = NilDoc
                    THEN [Name |-> p, CVContent |-> NoText, CLContent |-> NoText]
                    ELSE before[p]
         IN  IF ~LoadedName(f.name)
             THEN before
             ELSE IF Kind(f.name) = "cv"
             THEN [before EXCEPT ![p] = [doc EXCEPT !.CVContent = f.data]]
             ELSE IF Kind(f.name) = "cl"
             THEN [before EXCEPT ![p] = [doc EXCEPT !.CLContent = f.data]]
             ELSE [before EXCEPT ![p] = doc]

\* if doc.CVContent != "": the documents the conversion of the map to a
\* slice takes.
WithCV(m) ==
    { m[p] : p \in { q \in DOMAIN m : m[q] # NilDoc /\ m[q].CVContent # NoText } }

\* The slices the loop over the map may build.
SliceOf(m) ==
    { s \in [1..Cardinality(WithCV(m)) -> WithCV(m)] :
        \A x, y \in DOMAIN s : x # y => s[x] # s[y] }

\* The directory after the loop over the first k attachment parts of a
\* message, and what has been written to it.  A part whose download,
\* decoding or write fails leaves the directory as it is: the parts here are
\* the ones that are written.
RECURSIVE AfterParts(_, _, _, _)
AfterParts(st, message, parts, k) ==
    IF k = 0
    THEN st
    ELSE LET before == AfterParts(st, message, parts, k - 1)
             data == Downloaded(message, parts[k])
         IN  [before EXCEPT
                 !.dir = WriteFile(@, newFilename(extractSenderName(message),
                                                  parts[k]), data),
                 !.log = @ \cup {data}]

\* processMessageWithRetry on a message that Messages.Get returns: the loop
\* over its attachment parts.
ProcessMessage ==
    /\ store.docs = NoLoad
    /\ \E message \in Senders, m \in 1..MaxParts :
         \E parts \in [1..m -> AttachmentNames] :
            /\ Cardinality(store.log) + m <= MaxFiles
            /\ store' = AfterParts(store, message, parts, m)
    /\ UNCHANGED <<agentVars, handlerVars, lockVars, callerVars, sink,
                   uploads, documents, call>>

\* SaveUploadedFile, with the file's name.
SaveUploadedFileAs ==
    /\ store.docs = NoLoad
    /\ Cardinality(store.log) < MaxFiles
    /\ \E name \in UploadNames, ok \in BOOLEAN :
         store' = IF ok
                  THEN [store EXCEPT
                           !.dir = WriteFile(@, name, Uploaded(name)),
                           !.log = @ \cup {Uploaded(name)}]
                  ELSE store
    /\ UNCHANGED <<agentVars, handlerVars, lockVars, callerVars, sink,
                   uploads, documents, call>>

\* LoadDocuments on the directory.  `bad` is the place in the listing of a
\* file that os.ReadFile fails on, 0 for none.
LoadDocumentsByName ==
    /\ store.docs = NoLoad
    /\ \E dirOk \in BOOLEAN, bad \in 0..Cardinality(store.dir) :
         LET files == ReadDir(store.dir) IN
         IF ~dirOk
         THEN store' = [store EXCEPT !.docs =
                           [op |-> "LoadDocuments",
                            err |-> "failed to read uploads directory",
                            docs |-> <<>>]]
         ELSE IF bad # 0 /\ LoadedName(files[bad].name)
         THEN store' = [store EXCEPT !.docs =
                           [op |-> "LoadDocuments",
                            err |-> "failed to read file", docs |-> <<>>]]
         ELSE \E s \in SliceOf(GroupedByName(files, Len(files))) :
                store' = [store EXCEPT !.docs =
                             [op |-> "LoadDocuments", err |-> "nil", docs |-> s]]
    /\ UNCHANGED <<agentVars, handlerVars, lockVars, callerVars, sink,
                   uploads, documents, call>>

\* ClearUploads, before the next fetch or the next uploads.
ClearUploadsByName ==
    /\ \E ok \in BOOLEAN :
         store' = IF ok THEN EmptyStore ELSE store
    /\ UNCHANGED <<agentVars, handlerVars, lockVars, callerVars, sink,
                   uploads, documents, call>>

NextNames ==
    \/ ProcessMessage
    \/ SaveUploadedFileAs
    \/ LoadDocumentsByName
    \/ ClearUploadsByName

SpecNames == Init /\ [][NextNames]_vars

\* ----------------------------------------------- the scorer's calls
\* ScoreApplicant on a reply of the evaluator: parseScores, and the total of
\* the four scores.  The reply is a record or nothing, with prose in front of
\* it and behind it.
ScoreApplicantOnReply ==
    /\ call.op = "none"
    /\ \E lead \in Prose, core \in Cores, trail \in Prose :
         LET response == lead \o core \o trail IN
         call' = [op |-> "ScoreApplicant", lead |-> lead, core |-> core,
                  trail |-> trail, response |-> response,
                  parsed |-> parseScoresText(response),
                  out |-> ScoreApplicant([ok |-> TRUE,
                                          response |-> ReplyOf(response)])]
    /\ UNCHANGED <<agentVars, handlerVars, lockVars, callerVars, store, sink,
                   uploads, documents>>

\* buildScoringPrompt on an applicant's documents: a CV that is not empty,
\* as LoadDocuments gives it, and a cover letter that may be.
BuildScoringPrompt ==
    /\ call.op = "none"
    /\ \E cv \in Texts(cvLimit) \ {EmptyText}, cl \in Texts(clLimit) :
         call' = [op |-> "buildScoringPrompt", cv |-> cv, cl |-> cl,
                  out |-> buildScoringPrompt([CVContent |-> cv,
                                              CLContent |-> cl])]
    /\ UNCHANGED <<agentVars, handlerVars, lockVars, callerVars, store, sink,
                   uploads, documents>>

\* condenseRequirements on one list of a job description.
CondenseRequirementsCall ==
    /\ call.op = "none"
    /\ \E category \in Categories, items \in ItemLists, maxItems \in ItemLimits :
         call' = [op |-> "condenseRequirements", category |-> category,
                  items |-> items, maxItems |-> maxItems,
                  out |-> condenseRequirements(category, items, maxItems)]
    /\ UNCHANGED <<agentVars, handlerVars, lockVars, callerVars, store, sink,
                   uploads, documents>>

\* isRateLimitError on nil or on an error with a message.
IsRateLimitErrorCall ==
    /\ call.op = "none"
    /\ \/ call' = [op |-> "isRateLimitError", isNil |-> TRUE, msg |-> <<>>,
                    out |-> isRateLimitError(NoErr)]
       \/ \E msg \in Messages :
            call' = [op |-> "isRateLimitError", isNil |-> FALSE, msg |-> msg,
                     out |-> isRateLimitError(ErrorWith(msg))]
    /\ UNCHANGED <<agentVars, handlerVars, lockVars, callerVars, store, sink,
                   uploads, documents>>

\* The caller has taken what the call returned.
CallReturns ==
    /\ call.op # "none"
    /\ call' = NoCall
    /\ UNCHANGED <<agentVars, handlerVars, lockVars, callerVars, store, sink,
                   uploads, documents>>

NextScorer ==
    \/ ScoreApplicantOnReply
    \/ BuildScoringPrompt
    \/ IsRateLimitErrorCall
    \/ CondenseRequirementsCall
    \/ CallReturns

SpecScorer == Init /\ [][NextScorer]_vars

\* ----------------------------------------------- the snapshot's lock
\* The lists processApplicants may hold when its loop ends: one result for
\* each document whose evaluation succeeded, in document order.
CollectedLists ==
    UNION { { [k \in 1..m |->
                 ApplicantResult(k,
                    ScoreApplicant([ok |-> TRUE,
                                    response |-> [kind |-> "json", sub |-> f[k],
                                                  total |-> 0]]).scores)] :
              f \in [1..m -> SubScores] } : m \in 0..MaxDocs }

\* A Lock that waits for the writer only, as RLock does.
LockWaitsForWriterOnly(m) == m.writer # "held"

\* a.mu.Lock() is granted when no goroutine holds the lock in either mode.
CanLock(m) == m.writer # "held" /\ m.readers = {}

\* a.mu.RLock() is granted when no writer holds or waits for the lock.
CanRLock(m) == m.writer = "none"

\* A run up to the end of processApplicants' loop.
RunReachesRanking ==
    /\ pc = "idle"
    /\ \E list \in CollectedLists : local' = list
    /\ pc' = "rank"
    /\ ret' = "running"
    /\ UNCHANGED <<jobDesc, results, ctx, n, i, attempt, err, reader, reply,
                   calls, called, scored, completed, progress>>
    /\ UNCHANGED <<handlerVars, lockVars, callerVars, unitVars>>

\* sort.Slice and the rank loop, on the local slice; then a.mu.Lock() is
\* called and the run waits for it.
SortAndRank ==
    /\ pc = "rank"
    /\ \E sorted \in SortSlice(local) : local' = AssignRanks(sorted)
    /\ pc' = "lock"
    /\ mu' = [mu EXCEPT !.writer = "waiting"]
    /\ UNCHANGED <<jobDesc, results, ctx, n, i, attempt, err, ret, reader, reply,
                   calls, called, scored, completed, progress, rpc>>
    /\ UNCHANGED <<handlerVars, callerVars, unitVars>>

\* a.mu.Lock() returns.
Lock ==
    /\ pc = "lock"
    /\ CanLock(mu)
    /\ mu' = [mu EXCEPT !.writer = "held"]
    /\ pc' = "store"
    /\ UNCHANGED <<jobDesc, results, ctx, n, i, attempt, local, err, ret, reader,
                   reply, calls, called, scored, completed, progress, rpc>>
    /\ UNCHANGED <<handlerVars, callerVars, unitVars>>

\* a.results = results
Store ==
    /\ pc = "store"
    /\ results' = local
    /\ pc' = "unlock"
    /\ UNCHANGED <<jobDesc, ctx, n, i, attempt, local, err, ret, reader, reply,
                   calls, called, scored, completed, progress>>
    /\ UNCHANGED <<handlerVars, lockVars, callerVars, unitVars>>

\* a.mu.Unlock(), and processApplicants returns nil.
Unlock ==
    /\ pc = "unlock"
    /\ mu' = [mu EXCEPT !.writer = "none"]
    /\ pc' = "idle"
    /\ ret' = "nil"
    /\ completed' = TRUE
    /\ local' = <<>>
    /\ UNCHANGED <<jobDesc, results, ctx, n, i, attempt, err, reader, reply,
                   calls, called, scored, progress, rpc>>
    /\ UNCHANGED <<handlerVars, callerVars, unitVars>>

\* A reader's a.mu.RLock() returns.
RLock(r) ==
    /\ rpc[r] = "out"
    /\ CanRLock(mu)
    /\ mu' = [mu EXCEPT !.readers = @ \cup {r}]
    /\ rpc' = [rpc EXCEPT ![r] = "locked"]
    /\ UNCHANGED <<jobDesc, results, ctx, pc, n, i, attempt, local, err, ret,
                   reader, reply, calls, called, scored, completed, progress>>
    /\ UNCHANGED <<handlerVars, callerVars, unitVars>>

\* The reader reads a.results (GetReport builds its Report, GetResults its
\* copy).
Read(r) ==
    /\ rpc[r] = "locked"
    /\ reader' = GetReportValue(results, jobDesc)
    /\ rpc' = [rpc EXCEPT ![r] = "read"]
    /\ UNCHANGED <<jobDesc, results, ctx, pc, n, i, attempt, local, err, ret,
                   reply, calls, called, scored, completed, progress, mu>>
    /\ UNCHANGED <<handlerVars, callerVars, unitVars>>

\* The reader's deferred a.mu.RUnlock(), and the return.
RUnlock(r) ==
    /\ rpc[r] = "read"
    /\ mu' = [mu EXCEPT !.readers = @ \ {r}]
    /\ rpc' = [rpc EXCEPT ![r] = "out"]
    /\ reader' = NoRead
    /\ UNCHANGED <<jobDesc, results, ctx, pc, n, i, attempt, local, err, ret,
                   reply, calls, called, scored, completed, progress>>
    /\ UNCHANGED <<handlerVars, callerVars, unitVars>>

\* Runs of one agent, one after the other, and the goroutines reading its
\* snapshot.
NextLock ==
    \/ RunReachesRanking
    \/ SortAndRank
    \/ Lock
    \/ Store
    \/ Unlock
    \/ \E r \in Readers : RLock(r)
    \/ \E r \in Readers : Read(r)
    \/ \E r \in Readers : RUnlock(r)

SpecLock == Init /\ [][NextLock]_vars

\* ------------------------------------------------------------ the callers
\* What the window's progress label shows once the run has returned e:
\* err == context.Canceled is the only error it takes for a cancellation.
ProgressLabel(e) ==
    IF e = "nil" THEN "Complete"
    ELSE IF e = "Canceled" THEN "Processing canceled"
    ELSE "Error"

\* What a run hands its caller, given whether its context was cancelled.
RunReturns(cancelled) ==
    {"nil", "failed to parse job description", "failed to fetch Gmail attachments"}
    \cup (IF cancelled
          THEN {"Canceled", "failed to fetch Gmail attachments: context canceled"}
          ELSE {})

\* How handleIngest's look at the request goes, up to the call of the agent.
FormOutcomes ==
    {"ok", "failed to parse form", "job_description is required",
     "gmail_subject is required", "bad method", "no files uploaded"}

\* The status handleIngest answers with when it does not call the agent.
RejectStatus(form) == IF form = "no files uploaded" THEN "500" ELSE "400"

\* handleIngest, in the goroutine net/http gives each request, up to its call
\* of IngestFromUpload / IngestFromGmail.
HandleIngest(r) ==
    /\ http[r] # "running"
    /\ \E form \in FormOutcomes :
         http' = [http EXCEPT ![r] = IF form = "ok" THEN "running"
                                     ELSE RejectStatus(form)]
    /\ UNCHANGED <<jobDesc, results, ctx, pc, n, i, attempt, local, err, ret,
                   reader, reply, calls, called, scored, completed, progress,
                   gui>>
    /\ UNCHANGED <<handlerVars, lockVars, unitVars>>

\* The agent's run returns to handleIngest, which answers the request.
IngestReturns(r) ==
    /\ http[r] = "running"
    /\ \E e \in RunReturns(FALSE) :
         http' = [http EXCEPT ![r] = IF e = "nil" THEN "200" ELSE "500"]
    /\ UNCHANGED <<jobDesc, results, ctx, pc, n, i, attempt, local, err, ret,
                   reader, reply, calls, called, scored, completed, progress,
                   gui>>
    /\ UNCHANGED <<handlerVars, lockVars, unitVars>>

\* The process button is tapped (a disabled button takes no taps): with the
\* inputs filled in, handleProcess disables it and starts the run's goroutine.
HandleProcess ==
    /\ gui.processBtn = "enabled"
    /\ \E filled \in BOOLEAN :
         gui' = IF filled
                THEN [gui EXCEPT !.processBtn = "disabled",
                                 !.cancelBtn = "enabled",
                                 !.ctx = "active",
                                 !.runs = @ + 1]
                ELSE gui
    /\ UNCHANGED <<jobDesc, results, ctx, pc, n, i, attempt, local, err, ret,
                   reader, reply, calls, called, scored, completed, progress,
                   http>>
    /\ UNCHANGED <<handlerVars, lockVars, unitVars>>

\* The cancel button is tapped: handleCancel.
HandleCancel ==
    /\ gui.cancelBtn = "enabled"
    /\ gui.ctx # "none"
    /\ gui' = [gui EXCEPT !.ctx = "cancelled", !.label = "Canceling..."]
    /\ UNCHANGED <<jobDesc, results, ctx, pc, n, i, attempt, local, err, ret,
                   reader, reply, calls, called, scored, completed, progress,
                   http>>
    /\ UNCHANGED <<handlerVars, lockVars, unitVars>>

\* IngestFromGmailWithContext returns in the goroutine, which queues the
\* window update.
GuiRunReturns ==
    /\ gui.runs > 0
    /\ gui.returned = "none"
    /\ \E e \in RunReturns(gui.ctx = "cancelled") :
         gui' = [gui EXCEPT !.runs = @ - 1, !.returned = e]
    /\ UNCHANGED <<jobDesc, results, ctx, pc, n, i, attempt, local, err, ret,
                   reader, reply, calls, called, scored, completed, progress,
                   http>>
    /\ UNCHANGED <<handlerVars, lockVars, unitVars>>

\* The queued window update runs: the buttons are switched back and the
\* label shows how the run ended.
GuiUpdate ==
    /\ gui.returned # "none"
    /\ gui' = [gui EXCEPT !.processBtn = "enabled",
                          !.cancelBtn = "disabled",
                          !.returned = "none",
                          !.label = ProgressLabel(gui.returned)]
    /\ UNCHANGED <<jobDesc, results, ctx, pc, n, i, attempt, local, err, ret,
                   reader, reply, calls, called, scored, completed, progress,
                   http>>
    /\ UNCHANGED <<handlerVars, lockVars, unitVars>>

\* The HTTP server's requests against its agent, and the window against its.
NextCallers ==
    \/ \E r \in Requests : HandleIngest(r)
    \/ \E r \in Requests : IngestReturns(r)
    \/ HandleProcess
    \/ HandleCancel
    \/ GuiRunReturns
    \/ GuiUpdate

SpecCallers == Init /\ [][NextCallers]_vars

\* ------------------------------------------------------------ properties
Total(r) == r.Scores.TotalScore

\* The list a reader was handed in the last step, if it was handed one.
ReadList == IF reader.op = "GetReport" /\ ~reader.isErr
            THEN reader.Applicants
            ELSE <<>>

NonIncreasingTotals(list) ==
    \A x, y \in 1..Len(list) : x < y => Total(list[x]) >= Total(list[y])

\* C1: every published result list, as a.results holds it and as GetReport
\* and GetResults hand it out, is in non-increasing order of total score.
C1_TotalDescending ==
    /\ NonIncreasingTotals(results)
    /\ NonIncreasingTotals(GetResults(results))
    /\ NonIncreasingTotals(ReadList)

\* A report of two applicants with different totals in which the applicant
\* evaluated second is ranked first: the sort moved it.
C1_Witness ==
    /\ Len(ReadList) = 2
    /\ Total(ReadList[1]) > Total(ReadList[2])
    /\ ReadList[1].Name > ReadList[2].Name

\* The documented tie-break chain: total, then experience, then duties, then
\* education, then cover letter, each descending, each consulted only when
\* all earlier keys are equal.
RanksBefore(a, b) ==
    IF a.Scores.TotalScore # b.Scores.TotalScore
    THEN a.Scores.TotalScore > b.Scores.TotalScore
    ELSE IF a.Scores.ExperienceScore # b.Scores.ExperienceScore
    THEN a.Scores.ExperienceScore > b.Scores.ExperienceScore
    ELSE IF a.Scores.DutiesScore # b.Scores.DutiesScore
    THEN a.Scores.DutiesScore > b.Scores.DutiesScore
    ELSE IF a.Scores.EducationScore # b.Scores.EducationScore
    THEN a.Scores.EducationScore > b.Scores.EducationScore
    ELSE a.Scores.CoverLetterScore > b.Scores.CoverLetterScore

\* C2: in the published list no applicant stands behind one it beats on the
\* tie-break chain: with equal totals the higher experience score comes
\* first, then the higher duties score, then education, then cover letter.
C2_TieBreakChain ==
    \A x, y \in 1..Len(results) : x < y => ~RanksBefore(results[y], results[x])

\* C3: the n published results carry the ranks 1..n in list order, one each,
\* also when applicants have identical totals and sub-scores.
C3_RanksConsecutive ==
    /\ \A k \in 1..Len(results) : results[k].Rank = k
    /\ \A k \in 1..Len(ReadList) : ReadList[k].Rank = k

\* Two published applicants with identical scores, ranked 1 and 2.
C3_Witness ==
    /\ Len(results) = 2
    /\ results[1].Scores = results[2].Scores
    /\ results[1].Rank = 1
    /\ results[2].Rank = 2

SumOfSubScores(sc) ==
    sc.ExperienceScore + sc.EducationScore + sc.DutiesScore + sc.CoverLetterScore

\* The evaluator call that returned in the last step gave a decodable reply.
Decoded == reply.op = "GenerateContent" /\ reply.out.ok
           /\ reply.out.response.kind = "json"

\* C4: every Score collected by the run and every published Score has a
\* total equal to the sum of its four sub-scores as decoded, whatever total
\* the evaluator's reply carried.
C4_TotalIsSum ==
    /\ \A k \in 1..Len(local) : Total(local[k]) = SumOfSubScores(local[k].Scores)
    /\ \A k \in 1..Len(results) :
          Total(results[k]) = SumOfSubScores(results[k].Scores)
    /\ Decoded =>
          /\ Len(local) > 0
          /\ LET sc == local[Len(local)].Scores
                 sub == reply.out.response.sub IN
             /\ <<sc.ExperienceScore, sc.EducationScore, sc.DutiesScore,
                  sc.CoverLetterScore>> = sub
             /\ sc.TotalScore = sub[1] + sub[2] + sub[3] + sub[4]

\* The reply (45, 18, 17, 8) arrives claiming a total of 99 and is stored
\* with total 88.
C4_Witness ==
    /\ Decoded
    /\ reply.out.response.sub = <<45, 18, 17, 8>>
    /\ reply.out.response.total = 99
    /\ Total(local[Len(local)]) = 88

\* The evaluator call of the step returns with an error.
CallFails == pc \in {"inflight", "inflightCancelled"} /\ pc' # pc /\ ~err'.isNil

\* C5: a call that fails with a rate-limit error is followed by the backoff
\* wait and another call for the same record while fewer than 3 calls have
\* been made for it; no record gets more than 3 calls; a third rate-limited
\* call makes the run skip the record and go on to the next one.
C5_RateLimitRetry ==
    /\ [](calls <= 3)
    /\ [][ (CallFails /\ isRateLimitError(err')) =>
              /\ i' = i
              /\ local' = local
              /\ ret' = ret
              /\ IF calls < 3 THEN pc' = "backoff" ELSE pc' = AfterApplicant ]_vars
    /\ [][ (pc = "backoff" /\ pc' # "backoff") =>
              (pc' = "score" /\ i' = i /\ calls' = calls) ]_vars
    /\ [][ (pc = "delay" /\ pc' # "delay") => (pc' = "top" /\ i' = i + 1) ]_vars

\* The first of two records was rate-limited three times and skipped; the
\* run waits out the delay before the second record.
C5_Witness ==
    /\ pc = "delay"
    /\ calls = 3
    /\ isRateLimitError(err)
    /\ i = 1
    /\ scored = {}

Names(list) == { list[k].Name : k \in 1..Len(list) }

\* C7: a run that returned success published exactly the records whose
\* evaluation succeeded, each once; a skipped record is absent.  Records
\* being skipped never keeps a run that got through its loop from
\* returning success.
C7_OnlyScoredPublished ==
    /\ [](ret = "nil" =>
            /\ Names(results) = scored
            /\ Len(results) = Cardinality(scored))
    /\ [][ (pc = "rank" /\ pc' # "rank") => ret' = "nil" ]_vars

\* A successful run over two records that published one of them.
C7_Witness ==
    /\ ret = "nil"
    /\ n = 2
    /\ scored = {2}
    /\ Len(results) = 1

\* C8: once a run has returned success, GetReport returns a report, not the
\* no-results error.
C8_ReportAfterSuccess ==
    (reader.op = "GetReport" /\ completed) => ~reader.isErr

\* C9: GetReport called before any run has completed returns the no-results
\* error.
C9_NoResultsBeforeAnyRun ==
    (reader.op = "GetReport" /\ ~completed) => reader.isErr

\* GetReport is called while the first run has evaluated an applicant and
\* has not finished.
C9_Witness ==
    /\ reader.op = "GetReport"
    /\ reader.isErr
    /\ ~completed
    /\ pc = "delay"
    /\ scored = {1}

C11_CancelReachesCaller ==
    (pc = "idle" /\ "Canceled" \in Chain(ret)) =>
        ProgressLabel(ret) = "Processing canceled"

\* C12: the job title GetReport pairs with the published list is the title
\* of the run that produced the list.  A step that does not publish keeps
\* the list and its producing run, so it must keep the title reported with
\* the list: a later run that is starting, failing, cancelled or in flight
\* does not change it.
C12_TitleOfProducingRun ==
    [][ (Len(results) > 0 /\ pc # "rank") =>
            /\ results' = results
            /\ GetReportValue(results', jobDesc').JobTitle =
                   GetReportValue(results, jobDesc).JobTitle ]_vars

\* The goroutines inside a read of the snapshot, and whether the run is
\* inside the write that replaces it.
Reading == { r \in Readers : rpc[r] \in {"locked", "read"} }
Writing == pc \in {"store", "unlock"}

FullyRanked(list) ==
    /\ NonIncreasingTotals(list)
    /\ \A k \in 1..Len(list) : list[k].Rank = k

\* C13: no reader is inside its read while the run is inside the write that
\* replaces the snapshot, and whatever a reader reads is a whole list, ranked
\* from 1 and ordered by total: the previous one or the new one.
C13_ReadersExcludeWriter ==
    /\ ~(Reading # {} /\ Writing)
    /\ Reading # {} => FullyRanked(results)
    /\ FullyRanked(ReadList)

\* Two readers hold the lock at once, reading a published list that a run
\* is waiting to replace.
C13_Witness ==
    /\ Cardinality(Reading) = 2
    /\ Len(ReadList) = 2
    /\ pc = "lock"
    /\ local # results

\* The runs in flight against the server's agent.
ServerRuns == { r \in Requests : http[r] = "running" }

\* C14: at most one run is in flight against an agent at any time: neither
\* the HTTP ingest handler nor the window's process handler starts a run while
\* another one is in flight against the same agent.
C14_OneRunAtATime ==
    /\ Cardinality(ServerRuns) <= 1
    /\ gui.runs <= 1

\* C15: within one run the percentages handed to the agent's progress
\* callback never decrease, whether the run reports them itself or forwards
\* them from the Gmail handler: each one is at least the one before it.
C15_ProgressNeverDecreases ==
    \A x, y \in 1..Len(progress) : x < y => progress[x] <= progress[y]

\* C16: a run whose job description does not parse fails with nothing
\* touched: the stored job description and the published snapshot are what
\* they were, nothing of the Gmail run's clearing and fetching has happened,
\* and no percentage has been handed to the progress callback.
C16_ParseFailureTouchesNothing ==
    [][ (pc = "idle" /\ ret' = "failed to parse job description") =>
            /\ jobDesc' = jobDesc
            /\ results' = results
            /\ fetch' = NoFetch
            /\ progress' = <<>>
            /\ pc' = "idle" ]_vars

\* The errors of configuration: a malformed job description, a Gmail handler
\* or an evaluator client that cannot be constructed.
ConfigErrors ==
    {"failed to parse job description", "failed to initialize Gmail handler",
     "failed to initialize LLM client"}

\* C17: a run that fails on a configuration error fails at once: when it
\* returns the error it has not cleared the uploads, has listed nothing from
\* Gmail and has called the evaluator for no applicant.
C17_ConfigErrorFailsFirst ==
    [][ (ret' \in ConfigErrors /\ ret \notin ConfigErrors) =>
            /\ ~fetch.cleared
            /\ fetch.listCalls = 0
            /\ called' = {} ]_vars

\* An evaluator call is under way.
InFlight == {"inflight", "inflightCancelled"}

\* C18: the evaluator calls of a run come one after the other with a sleep
\* in between.  A call starts only at the head of an attempt, with none under
\* way; when a call ends the run goes to the retry backoff, to the
\* inter-applicant delay or, after the last applicant, to ranking; the head of
\* an attempt is reached only from the backoff or from the top of an
\* iteration, and the top of an iteration only from the delay or the run's
\* start; ranking ends the run.
C18_DelayBetweenCalls ==
    /\ [][ calls' = calls + 1 => (pc = "score" /\ pc' \in InFlight) ]_vars
    /\ [][ (pc \in InFlight /\ pc' # pc) =>
              pc' \in {"backoff", "delay", "rank"} ]_vars
    /\ [][ (pc' = "score" /\ pc # "score") => pc \in {"backoff", "top"} ]_vars
    /\ [][ (pc' = "top" /\ pc # "top") => pc \in {"delay", "idle"} ]_vars
    /\ [][ (pc \in {"backoff", "delay"} /\ pc' # pc) =>
              (calls' = calls /\ pc' \notin InFlight) ]_vars
    /\ [][ (pc = "rank" /\ pc' # "rank") => pc' = "idle" ]_vars

\* The second applicant's second call is under way: the run has been through
\* the inter-applicant delay and through a retry backoff.
C18_Witness ==
    /\ pc = "inflight"
    /\ i = 2
    /\ attempt = 1
    /\ calls = 2

\* The message whose processing ended in the last handler step, if one did.
ItemDone == fetch.done.op = "processMessageWithRetry"

\* C19: a message is given at most 3 processing attempts in all, and the
\* wait before retry number k is k times the backoff unit of one second.
C19_ThreeAttemptsLinearBackoff ==
    /\ fetch.gets <= 3
    /\ ItemDone => fetch.done.gets <= 3
    /\ pc = "sleep" => fetch.sleepFor = fetch.attempt * 1

\* C20: a message whose attachment could not be downloaded, decoded or
\* written in an attempt is tried again while attempts remain, and is not
\* counted as processed: when its processing ends with such a failure in the
\* last attempt made, the attempts were used up and the message was not
\* counted.
C20_FailureRetriedNotCounted ==
    (ItemDone /\ fetch.done.partFailed) =>
        /\ fetch.done.gets >= 3
        /\ ~fetch.done.counted

\* C21: a matching message with no attachments writes no file and does not
\* end the fetch with an error, which goes on to the next message or to its
\* return; a listing that ends with no message at all never reaches the
\* message loop: the fetch returns the no-messages error, which is its
\* terminal result.  The two cases leave the caller with different outcomes.
C21_NoAttachmentVersusNoMatch ==
    [][ /\ (ItemDone' /\ fetch'.done.parts = 0) =>
              /\ fetch'.done.written = 0
              /\ ret' = "running"
              /\ pc' \in {"itemTop", "fetchDone"}
        /\ (pc = "listTop" /\ pc' = "itemTop") => fetch'.listed > 0
        /\ (pc = "listTop" /\ ret' = WrapFetch("no messages found with subject")) =>
              /\ pc' = "idle"
              /\ fetch' = NoFetch ]_vars

\* The processing of a message without attachments has ended without an
\* error, after a listing that found a message.
C21_Witness ==
    /\ ItemDone
    /\ fetch.done.parts = 0
    /\ fetch.done.written = 0
    /\ fetch.done.ret = "nil"
    /\ fetch.listed > 0

\* C22: the values the Gmail handler hands to its progress callback during
\* one fetch never decrease, from the listing reports through the report at
\* the start of processing and the per-message reports to the report of
\* completion: each one is at least the one before it.
C22_SinkNeverDecreases ==
    \A x, y \in 1..Len(sink.reported) :
        x < y => sink.reported[x] <= sink.reported[y]

\* LoadDocuments returned this list without an error in the last step.
Returned == documents.op = "LoadDocuments" /\ documents.err = "nil"

\* The names of the records LoadDocuments returned.
ReturnedNames == { documents.docs[x].Name : x \in 1..Len(documents.docs) }

\* The files of the directory that hold a CV of applicant p: supported
\* files named p_<rest> whose rest names a CV or a resume.
CVFiles(p) ==
    { f \in FileNames : /\ uploads[f] # "absent"
                         /\ f.prefix = p
                         /\ Supported(f) /\ HasParts(f)
                         /\ f.rest \in {"CV", "Resume"} }

\* The place of a file in the directory's order.
Place(f) == CHOOSE k \in 1..Len(FileList) : FileList[k] = f

\* The CV file of applicant p that comes last in the directory's order.
LastCVFile(p) ==
    CHOOSE f \in CVFiles(p) : \A g \in CVFiles(p) : Place(g) <= Place(f)

\* C23 as stated: LoadDocuments returns exactly one record for each prefix
\* for which a CV file is present and none for a prefix with a cover letter
\* only, every record has non-empty CV text, and the names are pairwise
\* distinct.
C23_OneRecordPerCVPrefix ==
    Returned =>
        /\ ReturnedNames = { f.prefix : f \in { g \in FileNames : CVFiles(g.prefix) # {} } }
        /\ \A x \in 1..Len(documents.docs) : documents.docs[x].CVContent # ""
        /\ \A x, y \in 1..Len(documents.docs) :
              x # y => documents.docs[x].Name # documents.docs[y].Name

\* C23, amended: LoadDocuments returns exactly one record for each prefix
\* whose last CV file in the directory's order holds text, and none for any
\* other prefix, a prefix with a cover letter only among them; every record
\* has the text of that file as its CV text, which is not empty, and the
\* names are pairwise distinct.
C23_OneRecordPerNonEmptyCV ==
    Returned =>
        /\ ReturnedNames =
              { f.prefix : f \in { g \in FileNames :
                                     /\ CVFiles(g.prefix) # {}
                                     /\ uploads[LastCVFile(g.prefix)] # "" } }
        /\ \A x \in 1..Len(documents.docs) :
              /\ documents.docs[x].CVContent # ""
              /\ documents.docs[x].CVContent =
                    uploads[LastCVFile(documents.docs[x].Name)]
        /\ \A x, y \in 1..Len(documents.docs) :
              x # y => documents.docs[x].Name # documents.docs[y].Name

\* LoadDocuments has returned one record from a directory that holds a CV
\* with text for one applicant, an empty CV file for another, and a cover
\* letter for each.
C23_Witness ==
    /\ Returned
    /\ Len(documents.docs) = 1
    /\ documents.docs[1].Name = "JohnDoe"
    /\ documents.docs[1].CLContent = "text"
    /\ uploads[FileList[3]] = ""
    /\ uploads[FileList[2]] = "text"

\* ScoreApplicant was called on a reply in the last step.
Scored == call.op = "ScoreApplicant"

\* The reply holds a well-formed record.
HoldsRecord == Scored /\ call.core # <<>> /\ call.core[2] # "bad"

\* The reply is the record alone.
Bare == call.lead = <<>> /\ call.trail = <<>>

\* The reply is the record in a fenced code block, with or without the
\* language word behind the opening fence and white space inside the fence.
Fenced ==
    /\ call.lead \in {<<"fence-json">>, <<"fence-json", "ws">>, <<"fence">>, <<"fence", "ws">>}
    /\ call.trail \in {<<"fence">>, <<"ws", "fence">>}

\* The reply is the record with text in front of it and behind it.
InProse == call.lead # <<>> /\ call.trail # <<>>

\* Neither the text in front of the record nor the text behind it has a
\* brace.
ProseWithoutBrace ==
    \A k \in 1..Len(call.lead \o call.trail) :
        (call.lead \o call.trail)[k] \notin {"{", "}"}

\* C24 as stated: a record decodes to the same Scores, those of its fields,
\* whether the reply is the record alone, the record in a fenced code block,
\* or the record between leading and trailing prose.
C24_ThreeShapesSameScores ==
    (HoldsRecord /\ (Bare \/ Fenced \/ InProse)) =>
        /\ call.parsed.err.isNil
        /\ call.parsed.scores = FieldScores(call.core[2])

\* C24, amended: a record decodes to the same Scores, those of its fields,
\* whether the reply is the record alone, the record in a fenced code block,
\* or the record between leading and trailing prose that has no brace of
\* its own.
C24_ThreeShapesProseWithoutBrace ==
    (HoldsRecord /\ (Bare \/ Fenced \/ (InProse /\ ProseWithoutBrace))) =>
        /\ call.parsed.err.isNil
        /\ call.parsed.scores = FieldScores(call.core[2])

\* A record in a fenced code block with white space inside the fence has
\* been decoded.
C24_Witness ==
    /\ HoldsRecord
    /\ call.lead = <<"fence-json", "ws">>
    /\ call.trail = <<"ws", "fence">>
    /\ call.parsed.err.isNil

\* C25: whenever the decoding of a reply fails, the error holds a truncated
\* copy of the reply as the evaluator gave it, both when the reply has no
\* content between braces and when it has such content that does not
\* decode.
C25_ErrorHoldsOriginalReply ==
    (Scored /\ ~call.parsed.err.isNil) =>
        call.parsed.err.embedded = truncate(call.response, 200)

\* buildScoringPrompt was called in the last step.
Built == call.op = "buildScoringPrompt"

\* The byte at place k of a text.
ByteAt(text, k) == IF k <= text.pad THEN "a" ELSE text.tail[k - text.pad]

\* The first `upto` bytes of two texts are the same; the bytes of both
\* pads are ASCII bytes.
SameBytes(s, t, upto) ==
    \A k \in (IF s.pad < t.pad THEN s.pad + 1 ELSE t.pad + 1)..upto :
        ByteAt(s, k) = ByteAt(t, k)

\* Two texts are the same string of bytes.
SameText(s, t) == ByteLen(s) = ByteLen(t) /\ SameBytes(s, t, ByteLen(s))

\* The embedded text is the first `limit` bytes of the text and the marker
\* when the text is longer than the limit, and the whole text without the
\* marker when it is not.
CutAt(text, limit, embedded) ==
    IF ByteLen(text) > limit
    THEN /\ embedded.marker
         /\ ByteLen(embedded.text) = limit
         /\ SameBytes(embedded.text, text, limit)
    ELSE /\ ~embedded.marker
         /\ SameText(embedded.text, text)

C27_EmbeddedTextIsValid ==
    Built =>
        /\ ValidString(call.out.cv.text)
        /\ call.out.section => ValidString(call.out.cl.text)

C29_OrderFromScoresAlone ==
    pc = "rank" =>
        \A other \in Arrangements(local) :
            \A s1 \in SortSlice(local), s2 \in SortSlice(other) :
                AssignRanks(s1) = AssignRanks(s2)

\* The four scores and the total are within the ranges of the Scores type.
InRange(scores) ==
    /\ scores.ExperienceScore >= 0 /\ scores.ExperienceScore <= 50
    /\ scores.EducationScore >= 0 /\ scores.EducationScore <= 20
    /\ scores.DutiesScore >= 0 /\ scores.DutiesScore <= 20
    /\ scores.CoverLetterScore >= 0 /\ scores.CoverLetterScore <= 10
    /\ scores.TotalScore >= 0 /\ scores.TotalScore <= 100

\* C30: the Scores that ScoreApplicant returns without an error, which are
\* the Scores processApplicants collects and publishes as they are, have an
\* experience score within 0..50, an education score and a duties score
\* within 0..20, a cover letter score within 0..10 and a total within
\* 0..100, whatever numbers the evaluator's reply holds.
C30_ScoresWithinRanges ==
    (Scored /\ call.out.err.isNil) => InRange(call.out.scores)

\* isRateLimitError was called in the last step.
Classified == call.op = "isRateLimitError"

\* The words that hold one of the markers that have no space.
MarkerWords == {"ResourceExhausted", "429", "quota", "quotas"}

\* C31: isRateLimitError is false for a nil error; for an error it is true
\* exactly when the message holds ResourceExhausted, 429, rate limit or
\* quota, so that a message such as "timeout" is not a rate limit.
C31_RateLimitBySubstring ==
    Classified =>
        /\ call.isNil => ~call.out
        /\ ~call.isNil =>
              (call.out <=>
                 \/ \E k \in 1..Len(call.msg) : call.msg[k] \in MarkerWords
                 \/ \E k \in 1..(Len(call.msg) - 1) :
                       call.msg[k] = "rate" /\ call.msg[k + 1] = "limit")
        /\ (~call.isNil /\ call.msg = <<"timeout">>) => ~call.out

\* An error whose message holds "quota" inside a longer word has been
\* classified as a rate limit.
C31_Witness ==
    /\ Classified
    /\ ~call.isNil
    /\ call.msg = <<"timeout", "quotas">>
    /\ call.out

\* condenseRequirements was called in the last step.
Condensed == call.op = "condenseRequirements"

\* The pieces of a kind in what condenseRequirements wrote, in order.
RECURSIVE PiecesOf(_, _)
PiecesOf(out, kind) ==
    IF out = <<>> THEN <<>>
    ELSE (IF Head(out).kind = kind THEN <<Head(out)>> ELSE <<>>)
            \o PiecesOf(Tail(out), kind)

\* C32: for a list that is not empty and a limit N, condenseRequirements
\* writes the first min(N, length) items in their order, and the suffix
\* (+K more) if and only if K = length - N is more than 0; for an empty
\* list it writes the empty string.
C32_FirstItemsAndSuffix ==
    Condensed =>
        LET len == Len(call.items)
            count == IF call.maxItems < len THEN call.maxItems ELSE len
            written == PiecesOf(call.out, "item")
            more == PiecesOf(call.out, "more")
        IN  /\ len = 0 => call.out = <<>>
            /\ len > 0 =>
                  /\ Len(written) = count
                  /\ \A k \in 1..count : written[k].text = call.items[k]
                  /\ Len(more) = (IF len - call.maxItems > 0 THEN 1 ELSE 0)
                  /\ \A k \in 1..Len(more) : more[k].k = len - call.maxItems
                  /\ Len(more) = 1 => call.out[Len(call.out) - 1].kind = "more"

\* A list of four items has been condensed to its first two, with the
\* suffix (+2 more).
C32_Witness ==
    /\ Condensed
    /\ call.items = <<"Task 1", "Task 2", "Task 2", "Task 1">>
    /\ call.maxItems = 2
    /\ Len(call.out) = 6
    /\ call.out[5] = [kind |-> "more", k |-> 2]
\* How a run ends: success, the cancelled outcome, or a failure.
Done == ret = "nil"
Cancelled == ret \in {"Canceled", WrapFetch("Canceled")}
Failed ==
    ret \in {"failed to parse job description",
             "failed to initialize Gmail handler",
             "failed to clear uploads",
             WrapFetch("failed to create uploads directory"),
             WrapFetch("unable to retrieve messages"),
             WrapFetch("no messages found with subject"),
             "failed to initialize LLM client",
             "no documents found after Gmail fetch"}

Ended ==
    /\ pc = "idle"
    /\ \/ Done /\ ~Cancelled /\ ~Failed
       \/ Cancelled /\ ~Done /\ ~Failed
       \/ Failed /\ ~Done /\ ~Cancelled

\* C33: a run that has started, and whose page listings, message gets,
\* evaluator calls and waits all return, comes to its end, with exactly one
\* of the three outcomes: success, cancelled, failed.
C33_EveryRunTerminates == (pc # "idle") ~> Ended

\* A run has gone through the Gmail fetch and the applicant loop, with a
\* retried evaluator call, to its successful end.
C33_Witness ==
    /\ Ended
    /\ Done
    /\ completed
    /\ called # {}
    /\ Len(results) > 0

\* LoadDocuments has returned the records of the directory.
Listed == store.docs # NoLoad /\ store.docs.err = "nil"

ListedRecords == { store.docs.docs[k] : k \in 1..Len(store.docs.docs) }

\* The files of the directory that a message's attachment was written to.
DownloadedFiles == { f \in store.dir : f.data.by = "download" }

\* The name the handler derived for the sender of a downloaded file.
DerivedName(f) == extractSenderName(f.data.message)

\* The handler wrote the attachment as the sender's CV.
WrittenAsCV(f) ==
    f.name = DerivedName(f) \o <<"_", "C", "V">> \o Ext(f.data.filename)

\* The record holds the text of the file.
HoldsText(r, f) == r.CVContent = f.data \/ r.CLContent = f.data

\* C34: once the handler has written a sender's CV attachment, the listing
\* has a record whose name is the name derived for that sender, and no
\* record holds files of two senders with different derived names.
C34_RecordNamedAfterSender ==
    Listed =>
        /\ \A f \in DownloadedFiles :
              WrittenAsCV(f) => \E r \in ListedRecords : r.Name = DerivedName(f)
        /\ \A r \in ListedRecords : \A f, g \in DownloadedFiles :
              HoldsText(r, f) /\ HoldsText(r, g) => DerivedName(f) = DerivedName(g)

\* The part of a file's name in front of its first underscore.
NamePrefix(name) == SubSeq(name, 1, Index(name, "_") - 1)

\* The rest of the name, without the extension, in lower case.
NameRemainder(name) ==
    ToLower(SubSeq(name, Index(name, "_") + 1,
                   Len(name) - Len(Ext(name))))

AllowList ==
    { <<".", "p", "d", "f">>, <<".", "t", "x", "t">>, <<".", "d", "o", "c">>, <<".", "d", "o", "c", "x">> }

CVWords == { <<"c", "v">>, <<"r", "e", "s", "u", "m", "e">> }

\* What a file is by the first keyword that applies to its remainder, with
\* `words` the keywords of a cover letter.
KeywordKind(name, words) ==
    IF ToLower(Ext(name)) \notin AllowList \/ Index(name, "_") = 0
    THEN "none"
    ELSE IF \E w \in CVWords : StrContains(NameRemainder(name), w)
    THEN "cv"
    ELSE IF \E w \in words : StrContains(NameRemainder(name), w)
    THEN "cl"
    ELSE "none"

\* The file is the only one of its prefix and kind in the directory.
OnlyOfItsKind(f, words) ==
    \A g \in store.dir :
        /\ g # f
        /\ Index(g.name, "_") # 0
        /\ NamePrefix(g.name) = NamePrefix(f.name)
        => KeywordKind(g.name, words) # KeywordKind(f.name, words)

\* Every text of a record comes from a file of the record's prefix and of
\* the text's kind, and a file that is the only one of its prefix and kind
\* gives its text to the record of its prefix.
GroupedByKeyword(words) ==
    Listed =>
        /\ \A r \in ListedRecords : \A f \in store.dir :
              /\ r.CVContent = f.data =>
                    KeywordKind(f.name, words) = "cv" /\ r.Name = NamePrefix(f.name)
              /\ r.CLContent = f.data =>
                    KeywordKind(f.name, words) = "cl" /\ r.Name = NamePrefix(f.name)
        /\ \A f \in store.dir :
              /\ KeywordKind(f.name, words) = "cv" /\ OnlyOfItsKind(f, words) =>
                    \E r \in ListedRecords :
                        r.Name = NamePrefix(f.name) /\ r.CVContent = f.data
              /\ KeywordKind(f.name, words) = "cl" /\ OnlyOfItsKind(f, words) =>
                    \A r \in ListedRecords :
                        r.Name = NamePrefix(f.name) => r.CLContent = f.data

\* C35: a file is grouped under the part of its name before the first
\* underscore, and its remainder is a CV when it contains cv or resume,
\* otherwise a cover letter when it contains cover or letter; any other
\* file, and a file whose extension is not allowed, gives no text to any
\* record.
C35_FirstKeywordDecides ==
    GroupedByKeyword({ <<"c", "o", "v", "e", "r">>, <<"l", "e", "t", "t", "e", "r">> })

\* C35, amended: the same with cl as the third keyword of a cover letter.
C35_FirstKeywordDecidesWithCL ==
    GroupedByKeyword({ <<"c", "o", "v", "e", "r">>, <<"l", "e", "t", "t", "e", "r">>, <<"c", "l">> })

\* A record holds as its CV a file whose remainder has both cv and cover, and
\* as its cover letter a file of the same prefix.
C35_Witness ==
    /\ Listed
    /\ \E r \in ListedRecords :
          /\ r.CVContent = Uploaded(<<"J", "o", "h", "n", "D", "o", "e", "_", "C", "V", "_", "C", "o", "v", "e", "r", "L", "e", "t", "t", "e", "r", ".", "p", "d", "f">>)
          /\ r.CLContent = Uploaded(<<"J", "o", "h", "n", "D", "o", "e", "_", "L", "e", "t", "t", "e", "r", ".", "P", "D", "F">>)

\* C40: every attachment the handler has written during a fetch is a file
\* of the directory.
C40_NoAttachmentOverwritten ==
    \A c \in store.log :
        c.by = "download" => \E f \in store.dir : f.data = c

\* The evaluator call that returned in the last step had been started under
\* a live token and gave a reply, and the token is cancelled: the token was
\* cancelled while the call was in flight.
CancelledInFlight ==
    /\ ctx = "cancelled"
    /\ reply.op = "GenerateContent"
    /\ reply.out.ok

\* C36: a run whose token was cancelled while an evaluator call was in
\* flight does not return success, the call of the last record included: it
\* does not rank and publish what it has.
C36_CancelledInFlightNotPublished ==
    [][ CancelledInFlight => ~(ret' = "nil" /\ pc' = "idle") ]_vars

\* C37: with the token cancelled the run makes no further attempt for a
\* record it has backed off for.
C37_NoAttemptAfterCancel ==
    [][ (ctx = "cancelled" /\ attempt > 0) => calls' <= calls ]_vars

\* C38: a reply that was received and could not be decoded is not classified
\* as a rate-limit error and the record is not retried.
C38_UndecodableReplyNotRetried ==
    [][ (pc = "inflight" /\ pc' # "inflight" /\ reply'.out.ok /\ ~err'.isNil) =>
           (~isRateLimitError(err') /\ pc' # "backoff") ]_vars

\* C39: a message that every Messages.Get returned, and that had no
\* attachment part, was got once.
C39_NoAttachmentFetchedOnce ==
    (/\ fetch.done.op = "processMessageWithRetry"
     /\ fetch.done.ret = "nil"
     /\ fetch.done.parts = 0) => fetch.done.gets = 1
====
